---- MODULE Spec2Model ----
(***************************************************************************)
(* A model of the programs of exam/.  First the lexical analyzers of        *)
(* exam/lab06.py and exam/lab05.py (each file's class LexicalAnalyzer): a   *)
(* behaviour is a run of one of the two programs on one analyzer object.    *)
(* The object's fields are the state; init_scanner, get_next_token and      *)
(* tokenize (lab06) and analyze (lab05) are the operations.  A source text  *)
(* is a sequence of one-character strings; positions are the 0-based        *)
(* offsets of the code.  The other programs (the chained symbol table of    *)
(* lab07, the translator of lab03, the parser of lab01 and the skipper of   *)
(* lab04) follow, each with a specification of its own.                     *)
(***************************************************************************)
EXTENDS Integers, Sequences, FiniteSets, TLC

\* program: the file that runs.  source, pos, line, column, current_char,
\* symbol_table: the analyzer's fields (lab05 has no source and no
\* current_char field: source then holds the text last given to analyze).
VARIABLES program, source, pos, line, column, current_char, symbol_table,
          last_call, returned, raised, printed, sessions

\* The fields of the ChainedSymbolTable of lab07, and the Scope objects it
\* has created (a Scope is referred to by its index in scopes).
VARIABLES scopes, global_scope, current_scope, scope_stack

\* The indent field of the PredictiveParser of lab01 (its LexerStub's tokens
\* and pos are source and pos).
VARIABLES indent

\* The lookahead field of the Parser of lab02 (the fields of its Lexer are
\* source, pos, line, current_char and symbol_table).
VARIABLES lookahead

vars == <<program, source, pos, line, column, current_char, symbol_table,
          last_call, returned, raised, printed, sessions,
          scopes, global_scope, current_scope, scope_stack, indent,
          lookahead>>

\* The state of lab07, which the other programs do not have.
ScopeVars == <<scopes, global_scope, current_scope, scope_stack>>

(***************************************************************************)
(* Bounds of the model.                                                     *)
(***************************************************************************)
\* Longest source text of the single-session specification.
MaxLen == 4
\* Longest source text of the specification that reuses one analyzer.
ReuseLen == 2
\* Number of sessions run on one analyzer object in that specification.
MaxSessions == 2

(***************************************************************************)
(* Characters.  None is Python's None, the end-of-input value of            *)
(* current_char and of peek().                                              *)
(***************************************************************************)
None == "None"

\* The lookahead of a program that has no Parser of lab02.
NoLookahead == [tag |-> -1, class |-> "None", value |-> 0, lexeme |-> <<>>]

Letters == {"a", "b", "c", "d", "e", "f", "g", "h", "i", "j", "k", "l", "m",
            "n", "o", "p", "q", "r", "s", "t", "u", "v", "w", "x", "y", "z"}

Digits == {"0", "1", "2", "3", "4", "5", "6", "7", "8", "9"}

IsSpace(c) == c \in {" ", "\t", "\n", "\r"}

IsAlpha(c) == c \in Letters

IsDigit(c) == c \in Digits

IsAlnum(c) == IsAlpha(c) \/ IsDigit(c)

(***************************************************************************)
(* Token, LexicalError and the values a token carries.  A Python value is   *)
(* a tagged record: a string (its characters), an int, a float (the decimal *)
(* n / 10^d in lowest form) or None.                                        *)
(***************************************************************************)
StrVal(chars) == [tag |-> "str", s |-> chars, n |-> 0, d |-> 0]

IntVal(k) == [tag |-> "int", s |-> <<>>, n |-> k, d |-> 0]

FloatVal(k, e) == [tag |-> "float", s |-> <<>>, n |-> k, d |-> e]

NoneVal == [tag |-> "None", s |-> <<>>, n |-> 0, d |-> 0]

Token(type, value, l, c) == [type |-> type, value |-> value, line |-> l, column |-> c]

LexicalError(message, detail, l, c) ==
    [message |-> message, detail |-> detail, line |-> l, column |-> c]

\* No exception.
NoError == [message |-> "", detail |-> "", line |-> 0, column |-> 0]

\* No token (a call that raised, or that returns nothing).
NoToken == [type |-> "", value |-> NoneVal, line |-> 0, column |-> 0]

\* The outcome of one scanning method: the analyzer after it, the token it
\* returned, the exception it raised.
Returns(st, tok) == [st |-> st, tok |-> tok, err |-> NoError]

Raises(st, err) == [st |-> st, tok |-> NoToken, err |-> err]

(***************************************************************************)
(* The keyword and operator tables of __init__.                             *)
(***************************************************************************)
Keywords ==
    {<<"i", "f">>, <<"e", "l", "s", "e">>, <<"w", "h", "i", "l", "e">>,
     <<"f", "o", "r">>, <<"i", "n", "t">>, <<"f", "l", "o", "a", "t">>,
     <<"c", "h", "a", "r">>, <<"v", "o", "i", "d">>,
     <<"r", "e", "t", "u", "r", "n">>}

KeywordType(w) ==
    CASE w = <<"i", "f">> -> "IF"
      [] w = <<"e", "l", "s", "e">> -> "ELSE"
      [] w = <<"w", "h", "i", "l", "e">> -> "WHILE"
      [] w = <<"f", "o", "r">> -> "FOR"
      [] w = <<"i", "n", "t">> -> "INT"
      [] w = <<"f", "l", "o", "a", "t">> -> "FLOAT"
      [] w = <<"c", "h", "a", "r">> -> "CHAR"
      [] w = <<"v", "o", "i", "d">> -> "VOID"
      [] w = <<"r", "e", "t", "u", "r", "n">> -> "RETURN"
      [] OTHER -> "IDENTIFIER"

Operators ==
    {<<"+">>, <<"-">>, <<"*">>, <<"/">>, <<"=">>, <<"=", "=">>, <<"!", "=">>,
     <<"<">>, <<">">>, <<"<", "=">>, <<">", "=">>, <<"(">>, <<")">>,
     <<"{">>, <<"}">>, <<";">>, <<",">>}

OperatorType(op) ==
    CASE op = <<"+">> -> "PLUS"
      [] op = <<"-">> -> "MINUS"
      [] op = <<"*">> -> "MULTIPLY"
      [] op = <<"/">> -> "DIVIDE"
      [] op = <<"=">> -> "ASSIGN"
      [] op = <<"=", "=">> -> "EQ"
      [] op = <<"!", "=">> -> "NE"
      [] op = <<"<">> -> "LT"
      [] op = <<">">> -> "GT"
      [] op = <<"<", "=">> -> "LE"
      [] op = <<">", "=">> -> "GE"
      [] op = <<"(">> -> "LPAREN"
      [] op = <<")">> -> "RPAREN"
      [] op = <<"{">> -> "LBRACE"
      [] op = <<"}">> -> "RBRACE"
      [] op = <<";">> -> "SEMICOLON"
      [] op = <<",">> -> "COMMA"

(***************************************************************************)
(* The cursor: advance and peek.  An analyzer st is the record of the       *)
(* object's fields.                                                         *)
(***************************************************************************)
Analyzer ==
    [source |-> source, pos |-> pos, line |-> line, column |-> column,
     current_char |-> current_char, symbol_table |-> symbol_table]

\* A variant of advance that moves pos past the end of the input.
Advance_AlwaysMoves(st) ==
    IF st.pos >= Len(st.source)
    THEN [st EXCEPT !.current_char = None, !.pos = st.pos + 1]
    ELSE [st EXCEPT !.current_char = st.source[st.pos + 1],
                    !.pos = st.pos + 1,
                    !.column = st.column + 1]

Advance(st) ==
    IF st.pos >= Len(st.source)
    THEN [st EXCEPT !.current_char = None]
    ELSE [st EXCEPT !.current_char = st.source[st.pos + 1],
                    !.pos = st.pos + 1,
                    !.column = st.column + 1]

Peek(st) ==
    IF st.pos >= Len(st.source) THEN None ELSE st.source[st.pos + 1]

InitScannerOn(st, src) ==
    Advance([st EXCEPT !.source = src, !.pos = 0, !.line = 1, !.column = 1])

(***************************************************************************)
(* Whitespace and comments.                                                 *)
(***************************************************************************)
RECURSIVE SkipWhitespace(_)
SkipWhitespace(st) ==
    IF st.current_char # None /\ IsSpace(st.current_char)
    THEN SkipWhitespace(Advance(
             IF st.current_char = "\n"
             THEN [st EXCEPT !.line = st.line + 1, !.column = 1]
             ELSE st))
    ELSE st

\* A variant of the single-line loop that consumes the newline as well.
RECURSIVE SkipSingleLine_EatsNewline(_)
SkipSingleLine_EatsNewline(st) ==
    IF st.current_char = None THEN st
    ELSE IF st.current_char = "\n" THEN Advance(st)
    ELSE SkipSingleLine_EatsNewline(Advance(st))

RECURSIVE SkipSingleLine(_)
SkipSingleLine(st) ==
    IF st.current_char # None /\ st.current_char # "\n"
    THEN SkipSingleLine(Advance(st))
    ELSE st

\* A variant of the multi-line loop that skips only the * of the closing */.
RECURSIVE SkipMultiLine_KeepsSlash(_)
SkipMultiLine_KeepsSlash(st) ==
    IF st.current_char = None THEN st
    ELSE IF st.current_char = "*" /\ Peek(st) = "/"
    THEN Advance(st)
    ELSE SkipMultiLine_KeepsSlash(Advance(
             IF st.current_char = "\n"
             THEN [st EXCEPT !.line = st.line + 1, !.column = 1]
             ELSE st))

\* A variant of the multi-line loop that gives up at the end of a line.
RECURSIVE SkipMultiLine_EndsAtNewline(_)
SkipMultiLine_EndsAtNewline(st) ==
    IF st.current_char = None \/ st.current_char = "\n" THEN st
    ELSE IF st.current_char = "*" /\ Peek(st) = "/"
    THEN Advance(Advance(st))
    ELSE SkipMultiLine_EndsAtNewline(Advance(st))

RECURSIVE SkipMultiLine(_)
SkipMultiLine(st) ==
    IF st.current_char = None THEN st
    ELSE IF st.current_char = "*" /\ Peek(st) = "/"
    THEN Advance(Advance(st))
    ELSE SkipMultiLine(Advance(
             IF st.current_char = "\n"
             THEN [st EXCEPT !.line = st.line + 1, !.column = 1]
             ELSE st))

SkipComment(st) ==
    IF st.current_char = "/" /\ Peek(st) = "/"
    THEN SkipSingleLine(st)
    ELSE IF st.current_char = "/" /\ Peek(st) = "*"
    THEN SkipMultiLine(Advance(Advance(st)))
    ELSE st

(***************************************************************************)
(* Identifiers and keywords, with the symbol table.                         *)
(***************************************************************************)
\* The loop of read_identifier: the analyzer after it and the lexeme read.
RECURSIVE IdentifierChars(_, _)
IdentifierChars(st, result) ==
    IF st.current_char # None /\ (IsAlnum(st.current_char) \/ st.current_char = "_")
    THEN IdentifierChars(Advance(st), Append(result, st.current_char))
    ELSE [st |-> st, result |-> result]

\* A variant of RecordOccurrence that records only the first occurrence.
RecordOccurrence_FirstOnly(table, result, loc) ==
    IF result \in DOMAIN table THEN table
    ELSE [w \in DOMAIN table \cup {result} |->
             IF w = result THEN [first_seen |-> loc, occurrences |-> <<loc>>]
             ELSE table[w]]

\* A variant of RecordOccurrence that writes first_seen at every occurrence.
RecordOccurrence_Overwrites(table, result, loc) ==
    LET old == IF result \in DOMAIN table THEN table[result].occurrences ELSE <<>>
        new == [first_seen |-> loc, occurrences |-> Append(old, loc)]
    IN  [w \in DOMAIN table \cup {result} |-> IF w = result THEN new ELSE table[w]]

\* symbol_table after one identifier occurrence is recorded.
RecordOccurrence(table, result, loc) ==
    LET entry == IF result \in DOMAIN table
                 THEN table[result]
                 ELSE [first_seen |-> loc, occurrences |-> <<>>]
        new == [entry EXCEPT !.occurrences = Append(entry.occurrences, loc)]
    IN  [w \in DOMAIN table \cup {result} |-> IF w = result THEN new ELSE table[w]]

\* A variant of ReadIdentifier that records keywords too.
ReadIdentifier_RecordsKeywords(st) ==
    LET start_column == st.column
        r == IdentifierChars(st, <<>>)
        token_type == KeywordType(r.result)
    IN  Returns([r.st EXCEPT !.symbol_table =
                    RecordOccurrence(r.st.symbol_table, r.result,
                                     <<r.st.line, start_column>>)],
                Token(token_type, StrVal(r.result), r.st.line, start_column))

ReadIdentifier(st) ==
    LET start_column == st.column
        r == IdentifierChars(st, <<>>)
        token_type == KeywordType(r.result)
        token == Token(token_type, StrVal(r.result), r.st.line, start_column)
    IN  IF token_type = "IDENTIFIER"
        THEN Returns([r.st EXCEPT !.symbol_table =
                         RecordOccurrence(r.st.symbol_table, r.result,
                                          <<r.st.line, start_column>>)],
                     token)
        ELSE Returns(r.st, token)

(***************************************************************************)
(* Numbers: int(result) and float(result) are computed digit by digit.      *)
(***************************************************************************)
DigitValue(c) ==
    CASE c = "0" -> 0 [] c = "1" -> 1 [] c = "2" -> 2 [] c = "3" -> 3
      [] c = "4" -> 4 [] c = "5" -> 5 [] c = "6" -> 6 [] c = "7" -> 7
      [] c = "8" -> 8 [] c = "9" -> 9

\* int(chars) continued from the value acc of the digits already read.
RECURSIVE DecodeDigits(_, _)
DecodeDigits(chars, acc) ==
    IF chars = <<>> THEN acc
    ELSE DecodeDigits(Tail(chars), 10 * acc + DigitValue(Head(chars)))

DecodeInt(chars) == DecodeDigits(chars, 0)

\* The decimal k / 10^e in lowest form.
RECURSIVE Normalize(_, _)
Normalize(k, e) ==
    IF e > 0 /\ k % 10 = 0 THEN Normalize(k \div 10, e - 1) ELSE FloatVal(k, e)

\* float(chars) of digits with exactly one ".".
DecodeFloat(chars) ==
    LET dot == CHOOSE i \in 1..Len(chars) : chars[i] = "."
        digits == SubSeq(chars, 1, dot - 1) \o SubSeq(chars, dot + 1, Len(chars))
    IN  Normalize(DecodeInt(digits), Len(chars) - dot)

\* The loop of read_number: it ends normally or raises at a second ".".
RECURSIVE NumberChars(_, _, _)
NumberChars(st, result, is_float) ==
    IF st.current_char # None /\ (IsDigit(st.current_char) \/ st.current_char = ".")
    THEN IF st.current_char = "." /\ is_float
         THEN [st |-> st, result |-> result, is_float |-> is_float,
               err |-> LexicalError("Invalid float literal", "", st.line, st.column)]
         ELSE NumberChars(Advance(st), Append(result, st.current_char),
                          is_float \/ st.current_char = ".")
    ELSE [st |-> st, result |-> result, is_float |-> is_float, err |-> NoError]

ReadNumber(st) ==
    LET start_column == st.column
        r == NumberChars(st, <<>>, FALSE)
    IN  IF r.err # NoError THEN Raises(r.st, r.err)
        ELSE IF r.is_float
        THEN Returns(r.st, Token("FLOAT_LITERAL", DecodeFloat(r.result),
                                 r.st.line, start_column))
        ELSE Returns(r.st, Token("INTEGER", IntVal(DecodeInt(r.result)),
                                 r.st.line, start_column))

(***************************************************************************)
(* String and character literals.                                           *)
(***************************************************************************)
StringEscapes == {"n", "t", "\"", "\\"}

\* A variant in which char literals recognize the escapes of string literals.
CharEscapes_AsInStrings == StringEscapes

CharEscapes == {"n", "t", "'", "\\"}

\* A variant of the loop of read_string that stores an escape without its
\* backslash.
RECURSIVE StringChars_DropsBackslash(_, _)
StringChars_DropsBackslash(st, result) ==
    IF st.current_char # None /\ st.current_char # "\""
    THEN IF st.current_char = "\\"
         THEN LET e == Advance(st)
              IN  IF e.current_char \in StringEscapes
                  THEN StringChars_DropsBackslash(Advance(e),
                                                  Append(result, e.current_char))
                  ELSE [st |-> e, result |-> result,
                        err |-> LexicalError("Invalid escape sequence", "",
                                             e.line, e.column)]
         ELSE StringChars_DropsBackslash(Advance(st),
                                         Append(result, st.current_char))
    ELSE [st |-> st, result |-> result, err |-> NoError]

\* The loop of read_string: it ends at the closing quote or at the end of
\* input, or raises at an unrecognized escape.
RECURSIVE StringChars(_, _)
StringChars(st, result) ==
    IF st.current_char # None /\ st.current_char # "\""
    THEN IF st.current_char = "\\"
         THEN LET e == Advance(st)
              IN  IF e.current_char \in StringEscapes
                  THEN StringChars(Advance(e), result \o <<"\\", e.current_char>>)
                  ELSE [st |-> e, result |-> result,
                        err |-> LexicalError("Invalid escape sequence", "",
                                             e.line, e.column)]
         ELSE StringChars(Advance(st), Append(result, st.current_char))
    ELSE [st |-> st, result |-> result, err |-> NoError]

ReadString(st) ==
    LET start_column == st.column
        r == StringChars(Advance(st), <<>>)
    IN  IF r.err # NoError THEN Raises(r.st, r.err)
        ELSE IF r.st.current_char = None
        THEN Raises(r.st, LexicalError("Unterminated string literal", "",
                                       r.st.line, start_column))
        ELSE Returns(Advance(r.st),
                     Token("STRING", StrVal(r.result), r.st.line, start_column))

ReadCharLiteral(st) ==
    LET start_column == st.column
        a == Advance(st)
        e == Advance(a)
        escaped == a.current_char = "\\"
        \* the analyzer positioned on the literal's (last) character
        v == IF escaped THEN e ELSE a
        value == IF escaped THEN <<"\\", e.current_char>> ELSE <<a.current_char>>
        c == Advance(v)
    IN  IF a.current_char = None
        THEN Raises(a, LexicalError("Unterminated character literal", "",
                                    a.line, start_column))
        ELSE IF escaped /\ e.current_char \notin CharEscapes
        THEN Raises(e, LexicalError("Invalid escape sequence", "", e.line, e.column))
        ELSE IF c.current_char # "'"
        THEN Raises(c, LexicalError("Unterminated character literal", "",
                                    c.line, start_column))
        ELSE Returns(Advance(c),
                     Token("CHAR_LITERAL", StrVal(value), c.line, start_column))

(***************************************************************************)
(* get_next_token: the loop that skips whitespace and comments, then the    *)
(* dispatch on the current character.                                       *)
(***************************************************************************)
IsCommentStart(st) ==
    st.current_char = "/" /\ (Peek(st) = "/" \/ Peek(st) = "*")

\* The analyzer when the loop of get_next_token leaves the whitespace and
\* comment branches: at the end of input, or on the first character of a
\* token (or of an error).
RECURSIVE SkipTrivia(_)
SkipTrivia(st) ==
    IF st.current_char = None THEN st
    ELSE IF IsSpace(st.current_char) THEN SkipTrivia(SkipWhitespace(st))
    ELSE IF IsCommentStart(st) THEN SkipTrivia(SkipComment(st))
    ELSE st

\* The branch "Single-character operators and delimiters".
SingleCharOperator(st) ==
    LET char == st.current_char
        a == Advance(st)
    IN  Returns(a, Token(OperatorType(<<char>>), StrVal(<<char>>),
                         a.line, a.column - 1))

\* A variant of the two-character branch that advances once.
MultiCharOperator_OneAdvance(st) ==
    LET op == <<st.current_char, "=">>
        a == Advance(st)
    IN  Returns(a, Token(OperatorType(op), StrVal(op), a.line, a.column - Len(op)))

\* The branch "Multi-character operators", taken when peek() is "=".
MultiCharOperator(st) ==
    LET op == <<st.current_char, "=">>
        a == Advance(Advance(st))
    IN  Returns(a, Token(OperatorType(op), StrVal(op), a.line, a.column - Len(op)))

\* A variant of the end-of-input return that counts a column for the sentinel.
EndOfInput_MovesColumn(st) ==
    Returns([st EXCEPT !.column = st.column + 1],
            Token("EOF", NoneVal, st.line, st.column))

\* The return after the loop of get_next_token: the end of input.
EndOfInput(st) == Returns(st, Token("EOF", NoneVal, st.line, st.column))

Dispatch(st) ==
    LET c == st.current_char
    IN  IF c = None THEN EndOfInput(st)
        ELSE IF IsAlpha(c) \/ c = "_" THEN ReadIdentifier(st)
        ELSE IF IsDigit(c) THEN ReadNumber(st)
        ELSE IF c = "\"" THEN ReadString(st)
        ELSE IF c = "'" THEN ReadCharLiteral(st)
        ELSE IF c \in {"=", "!", "<", ">"} /\ Peek(st) = "="
        THEN MultiCharOperator(st)
        ELSE IF <<c>> \in Operators THEN SingleCharOperator(st)
        ELSE Raises(st, LexicalError("Invalid character: ", c, st.line, st.column))

GetNextTokenOn(st) == Dispatch(SkipTrivia(st))

(***************************************************************************)
(* tokenize: the driver loop, with its except clause.                       *)
(***************************************************************************)
\* A variant of the loop that leaves it before the EOF token is appended.
RECURSIVE TokenizeLoop_DropsEOF(_, _)
TokenizeLoop_DropsEOF(st, tokens) ==
    LET r == GetNextTokenOn(st)
    IN  IF r.err # NoError
        THEN [st |-> r.st, returned |-> <<>>, printed |-> <<r.err>>]
        ELSE IF r.tok.type = "EOF"
        THEN [st |-> r.st, returned |-> tokens, printed |-> <<>>]
        ELSE TokenizeLoop_DropsEOF(r.st, Append(tokens, r.tok))

\* A variant whose except clause returns the tokens collected so far.
RECURSIVE TokenizeLoop_KeepsPartial(_, _)
TokenizeLoop_KeepsPartial(st, tokens) ==
    LET r == GetNextTokenOn(st)
    IN  IF r.err # NoError
        THEN [st |-> r.st, returned |-> tokens, printed |-> <<r.err>>]
        ELSE IF r.tok.type = "EOF"
        THEN [st |-> r.st, returned |-> Append(tokens, r.tok), printed |-> <<>>]
        ELSE TokenizeLoop_KeepsPartial(r.st, Append(tokens, r.tok))

\* A variant whose except clause prints nothing.
RECURSIVE TokenizeLoop_Silent(_, _)
TokenizeLoop_Silent(st, tokens) ==
    LET r == GetNextTokenOn(st)
    IN  IF r.err # NoError
        THEN [st |-> r.st, returned |-> <<>>, printed |-> <<>>]
        ELSE IF r.tok.type = "EOF"
        THEN [st |-> r.st, returned |-> Append(tokens, r.tok), printed |-> <<>>]
        ELSE TokenizeLoop_Silent(r.st, Append(tokens, r.tok))

\* A variant whose except clause empties the occurrence table.
RECURSIVE TokenizeLoop_ForgetsTable(_, _)
TokenizeLoop_ForgetsTable(st, tokens) ==
    LET r == GetNextTokenOn(st)
    IN  IF r.err # NoError
        THEN [st |-> [r.st EXCEPT !.symbol_table = <<>>],
              returned |-> <<>>, printed |-> <<r.err>>]
        ELSE IF r.tok.type = "EOF"
        THEN [st |-> r.st, returned |-> Append(tokens, r.tok), printed |-> <<>>]
        ELSE TokenizeLoop_ForgetsTable(r.st, Append(tokens, r.tok))

\* The loop of tokenize from analyzer st with the list tokens: what the call
\* returns and prints, and the analyzer it leaves.
RECURSIVE TokenizeLoop(_, _)
TokenizeLoop(st, tokens) ==
    LET r == GetNextTokenOn(st)
    IN  IF r.err # NoError
        THEN [st |-> r.st, returned |-> <<>>, printed |-> <<r.err>>]
        ELSE IF r.tok.type = "EOF"
        THEN [st |-> r.st, returned |-> Append(tokens, r.tok), printed |-> <<>>]
        ELSE TokenizeLoop(r.st, Append(tokens, r.tok))

TokenizeOn(st, src) == TokenizeLoop(InitScannerOn(st, src), <<>>)

(***************************************************************************)
(* lab05: the keyword and identifier distinguisher.  Its analyzer st is the *)
(* record of the fields pos, line, column and symbol_table.                 *)
(***************************************************************************)
Lab05Keywords ==
    {<<"i", "f">>, <<"e", "l", "s", "e">>, <<"w", "h", "i", "l", "e">>,
     <<"f", "o", "r">>, <<"d", "o">>, <<"b", "r", "e", "a", "k">>,
     <<"c", "o", "n", "t", "i", "n", "u", "e">>, <<"i", "n", "t">>,
     <<"f", "l", "o", "a", "t">>, <<"c", "h", "a", "r">>, <<"v", "o", "i", "d">>,
     <<"r", "e", "t", "u", "r", "n">>, <<"s", "t", "r", "u", "c", "t">>,
     <<"s", "w", "i", "t", "c", "h">>, <<"c", "a", "s", "e">>,
     <<"d", "e", "f", "a", "u", "l", "t">>, <<"c", "o", "n", "s", "t">>,
     <<"s", "t", "a", "t", "i", "c">>}

Lab05Analyzer ==
    [pos |-> pos, line |-> line, column |-> column, symbol_table |-> symbol_table]

IsValidIdentifierStart(c) == IsAlpha(c) \/ c = "_"

IsValidIdentifierChar(c) == IsAlnum(c) \/ c = "_"

RECURSIVE Lab05SkipWhitespace(_, _)
Lab05SkipWhitespace(st, text) ==
    IF st.pos < Len(text) /\ IsSpace(text[st.pos + 1])
    THEN Lab05SkipWhitespace(
             IF text[st.pos + 1] = "\n"
             THEN [st EXCEPT !.line = st.line + 1, !.column = 1, !.pos = st.pos + 1]
             ELSE [st EXCEPT !.column = st.column + 1, !.pos = st.pos + 1],
             text)
    ELSE st

\* The loop over the characters of an identifier or keyword.
RECURSIVE Lab05WordChars(_, _)
Lab05WordChars(st, text) ==
    IF st.pos < Len(text) /\ IsValidIdentifierChar(text[st.pos + 1])
    THEN Lab05WordChars([st EXCEPT !.pos = st.pos + 1, !.column = st.column + 1], text)
    ELSE st

\* The loop over the characters of a number.
RECURSIVE Lab05NumberChars(_, _)
Lab05NumberChars(st, text) ==
    IF st.pos < Len(text) /\ (IsDigit(text[st.pos + 1]) \/ text[st.pos + 1] = ".")
    THEN Lab05NumberChars([st EXCEPT !.pos = st.pos + 1, !.column = st.column + 1], text)
    ELSE st

\* The symbol table after analyze has met the identifier word at loc.
Lab05RecordOccurrence(table, word, loc) == RecordOccurrence(table, word, loc)

\* The loop of analyze: the analyzer it leaves and the tokens it returns.
RECURSIVE AnalyzeLoop(_, _, _)
AnalyzeLoop(st0, text, tokens) ==
    IF st0.pos >= Len(text) THEN [st |-> st0, returned |-> tokens]
    ELSE
      LET st == Lab05SkipWhitespace(st0, text)
          char == text[st.pos + 1]
          start_column == st.column
          start == st.pos
      IN  IF st.pos >= Len(text) THEN [st |-> st, returned |-> tokens]
          ELSE IF IsValidIdentifierStart(char)
          THEN LET e == Lab05WordChars(st, text)
                   word == SubSeq(text, start + 1, e.pos)
               IN  IF word \in Lab05Keywords
                   THEN AnalyzeLoop(e, text,
                            Append(tokens, Token("KEYWORD", StrVal(word),
                                                 e.line, start_column)))
                   ELSE AnalyzeLoop(
                            [e EXCEPT !.symbol_table =
                                Lab05RecordOccurrence(e.symbol_table, word,
                                                      <<e.line, start_column>>)],
                            text,
                            Append(tokens, Token("IDENTIFIER", StrVal(word),
                                                 e.line, start_column)))
          ELSE IF IsDigit(char)
          THEN LET e == Lab05NumberChars(st, text)
               IN  AnalyzeLoop(e, text,
                       Append(tokens,
                              Token("NUMBER", StrVal(SubSeq(text, start + 1, e.pos)),
                                    e.line, start_column)))
          ELSE AnalyzeLoop([st EXCEPT !.pos = st.pos + 1, !.column = st.column + 1],
                           text,
                           Append(tokens, Token("SYMBOL", StrVal(<<char>>),
                                                st.line, st.column)))

AnalyzeOn(st, text) ==
    AnalyzeLoop([st EXCEPT !.pos = 0, !.line = 1, !.column = 1], text, <<>>)

(***************************************************************************)
(* The source texts the specifications draw from: every text of bounded     *)
(* length over one of several small alphabets, one per lexical category.    *)
(***************************************************************************)
SeqsOver(alphabet, n) == UNION {[1..k -> alphabet] : k \in 0..n}

OperatorAlphabet == {"=", "!", "<", ">", "x", " "}

WordAlphabet == {"i", "f", "x", " ", "\n", ";"}

LiteralAlphabet == {"\"", "'", "\\", "n", "\n", "a"}

NumberAlphabet == {"0", "1", ".", " ", "x"}

CommentAlphabet == {"/", "*", "\n", "x", " "}

Sources ==
    SeqsOver(OperatorAlphabet, MaxLen) \cup SeqsOver(WordAlphabet, MaxLen)
      \cup SeqsOver(LiteralAlphabet, MaxLen) \cup SeqsOver(NumberAlphabet, MaxLen)
      \cup SeqsOver(CommentAlphabet, MaxLen)

ReuseAlphabet == {"i", "f", " "}

ReuseSources == SeqsOver(ReuseAlphabet, ReuseLen)

(***************************************************************************)
(* The state machine.  last_call names the method called last; returned,    *)
(* raised and printed are what that call returned (a list of tokens: the    *)
(* one token of get_next_token, the list of tokenize), the exception that   *)
(* left it, and what it wrote to the console.  sessions counts the          *)
(* sessions begun on the object (the init_scanner and analyze calls).       *)
(***************************************************************************)
Init ==
    /\ program \in {"lab05", "lab06"}
    /\ source = <<>>
    /\ pos = 0
    /\ line = 1
    /\ column = 1
    /\ current_char = None
    /\ symbol_table = <<>>
    /\ last_call = "__init__"
    /\ returned = <<>>
    /\ raised = NoError
    /\ printed = <<>>
    /\ sessions = 0
    /\ scopes = <<>>
    /\ global_scope = 0
    /\ current_scope = 0
    /\ scope_stack = <<>>
    /\ indent = 0
    /\ lookahead = NoLookahead

\* The object's fields become those of st.
Becomes(st) ==
    /\ source' = st.source
    /\ pos' = st.pos
    /\ line' = st.line
    /\ column' = st.column
    /\ current_char' = st.current_char
    /\ symbol_table' = st.symbol_table

InitScanner(src) ==
    /\ program = "lab06"
    /\ UNCHANGED program
    /\ Becomes(InitScannerOn(Analyzer, src))
    /\ last_call' = "init_scanner"
    /\ returned' = <<>>
    /\ raised' = NoError
    /\ printed' = <<>>
    /\ sessions' = sessions + 1
    /\ UNCHANGED <<ScopeVars, indent, lookahead>>

GetNextToken ==
    LET r == GetNextTokenOn(Analyzer)
    IN  /\ program = "lab06"
        /\ UNCHANGED program
        /\ Becomes(r.st)
        /\ last_call' = "get_next_token"
        /\ returned' = IF r.err = NoError THEN <<r.tok>> ELSE <<>>
        /\ raised' = r.err
        /\ printed' = <<>>
        /\ UNCHANGED sessions
        /\ UNCHANGED <<ScopeVars, indent, lookahead>>

Tokenize(src) ==
    LET r == TokenizeOn(Analyzer, src)
    IN  /\ program = "lab06"
        /\ UNCHANGED program
        /\ Becomes(r.st)
        /\ last_call' = "tokenize"
        /\ returned' = r.returned
        /\ raised' = NoError
        /\ printed' = r.printed
        /\ sessions' = sessions + 1
        /\ UNCHANGED <<ScopeVars, indent, lookahead>>

Analyze(text) ==
    LET r == AnalyzeOn(Lab05Analyzer, text)
    IN  /\ program = "lab05"
        /\ UNCHANGED <<program, current_char>>
        /\ source' = text
        /\ pos' = r.st.pos
        /\ line' = r.st.line
        /\ column' = r.st.column
        /\ symbol_table' = r.st.symbol_table
        /\ last_call' = "analyze"
        /\ returned' = r.returned
        /\ raised' = NoError
        /\ printed' = <<>>
        /\ sessions' = sessions + 1
        /\ UNCHANGED <<ScopeVars, indent, lookahead>>

\* One session on a freshly constructed analyzer.
Next ==
    \/ sessions = 0 /\ \E src \in Sources : InitScanner(src)
    \/ sessions = 0 /\ \E src \in Sources : Tokenize(src)
    \/ GetNextToken
    \/ sessions = 0 /\ \E text \in Sources : Analyze(text)

Spec == Init /\ [][Next]_vars

\* One analyzer reused for several sessions.
ReuseNext ==
    \/ sessions < MaxSessions /\ \E src \in ReuseSources : InitScanner(src)
    \/ sessions < MaxSessions /\ \E src \in ReuseSources : Tokenize(src)
    \/ GetNextToken
    \/ sessions < MaxSessions /\ \E text \in ReuseSources : Analyze(text)

SpecReuse == Init /\ [][ReuseNext]_vars

(***************************************************************************)
(* What the claims speak of.                                                *)
(***************************************************************************)
\* A freshly constructed analyzer.
FreshAnalyzer ==
    [source |-> <<>>, pos |-> 0, line |-> 1, column |-> 1,
     current_char |-> None, symbol_table |-> <<>>]

\* A freshly constructed analyzer of lab05.
FreshLab05Analyzer == [pos |-> 0, line |-> 1, column |-> 1, symbol_table |-> <<>>]

\* The last call was a get_next_token that returned a token.
TokenReturned == last_call = "get_next_token" /\ Len(returned) = 1

\* The last call was a tokenize that met a lexical error (it printed it).
TokenizeFailed == last_call = "tokenize" /\ printed # <<>>

\* The last call was a tokenize that met no lexical error.
TokenizeSucceeded == last_call = "tokenize" /\ printed = <<>>

\* The outcome of the first get_next_token call, scanning from st, that
\* raises or returns EOF.
RECURSIVE ScanToEnd(_)
ScanToEnd(st) ==
    LET r == GetNextTokenOn(st)
    IN  IF r.err # NoError \/ r.tok.type = "EOF" THEN r ELSE ScanToEnd(r.st)

\* The two-character operator that starts with c.
TwoCharType(c) ==
    CASE c = "=" -> "EQ" [] c = "!" -> "NE" [] c = "<" -> "LE" [] c = ">" -> "GE"

(***************************************************************************)
(* C1.  In get_next_token, whenever the character the dispatch stands on    *)
(* is one of = ! < > and the next character is =, the call returns exactly  *)
(* one token, of type EQ, NE, LE, GE respectively and with the              *)
(* two-character lexeme, and both characters are consumed: the current      *)
(* character afterwards is the one after the pair (or the end of input).    *)
(***************************************************************************)
C1_TwoCharOperator ==
    [][GetNextToken =>
         LET d == SkipTrivia(Analyzer)
         IN  (d.current_char \in {"=", "!", "<", ">"} /\ Peek(d) = "=") =>
                /\ raised' = NoError
                /\ Len(returned') = 1
                /\ returned'[1].type = TwoCharType(d.current_char)
                /\ returned'[1].value = StrVal(<<d.current_char, "=">>)
                /\ current_char' = IF d.pos + 2 <= Len(source)
                                   THEN source[d.pos + 2] ELSE None]_vars

\* get_next_token has returned NE for a "!=" that an "x" follows, and stands
\* on the "x".
C1_Witness ==
    /\ TokenReturned
    /\ returned[1].type = "NE"
    /\ current_char = "x"
    /\ pos >= 3
    /\ source[pos - 2] = "!" /\ source[pos - 1] = "="

(***************************************************************************)
(* C2.  When tokenize meets no lexical error, the list it returns ends with *)
(* an EOF token and holds no other EOF token.                               *)
(***************************************************************************)
C2_ExactlyOneEOF ==
    TokenizeSucceeded =>
        /\ Len(returned) >= 1
        /\ returned[Len(returned)].type = "EOF"
        /\ \A i \in 1..(Len(returned) - 1) : returned[i].type # "EOF"

\* tokenize has returned three tokens and then EOF.
C2_Witness ==
    /\ TokenizeSucceeded
    /\ Len(returned) = 4
    /\ returned[4].type = "EOF"

(***************************************************************************)
(* C3.  When tokenize meets a lexical error it returns the empty list (no   *)
(* token scanned before the error is returned) and it has stopped at the    *)
(* first error: the analyzer is as the first failing get_next_token call    *)
(* left it.                                                                 *)
(***************************************************************************)
C3_StopsAtFirstError ==
    TokenizeFailed =>
        /\ returned = <<>>
        /\ LET f == ScanToEnd(InitScannerOn(FreshAnalyzer, source))
           IN  /\ f.err # NoError
               /\ Analyzer = f.st

\* tokenize has failed after an identifier was scanned (and recorded).
C3_Witness ==
    /\ TokenizeFailed
    /\ returned = <<>>
    /\ symbol_table # <<>>

(***************************************************************************)
(* C4.  As claimed: when tokenize meets a lexical error, the error (kind    *)
(* and location) is the outcome of the call, that is, it leaves the call    *)
(* as its exception.                                                        *)
(***************************************************************************)
C4_CallerReceivesError ==
    TokenizeFailed => raised = printed[1]

(***************************************************************************)
(* C4, amended.  tokenize never raises.  When it meets a lexical error it   *)
(* writes that error, the first one raised by get_next_token with its       *)
(* message, line and column, to the console, once, and returns the empty    *)
(* list; a call that meets no error prints nothing and returns a non-empty  *)
(* list.                                                                    *)
(***************************************************************************)
C4_ErrorPrintedNotRaised ==
    last_call = "tokenize" =>
        /\ raised = NoError
        /\ LET f == ScanToEnd(InitScannerOn(FreshAnalyzer, source))
           IN  IF f.err # NoError
               THEN printed = <<f.err>> /\ returned = <<>>
               ELSE printed = <<>> /\ returned # <<>>

\* tokenize has printed an invalid-character error found on the second line.
C4_Witness ==
    /\ TokenizeFailed
    /\ raised = NoError
    /\ returned = <<>>
    /\ printed[1].message = "Invalid character: "
    /\ printed[1].line = 2

(***************************************************************************)
(* C5.  Every scan that yields an IDENTIFIER token for a lexeme w at the    *)
(* token's location L (its line and column) creates, when the table has no  *)
(* entry for w, the entry with first_seen = L and the occurrences <<L>>;    *)
(* when it has one, it appends L to the entry's occurrences and leaves      *)
(* first_seen unchanged.  The entries of the other lexemes are unchanged,   *)
(* and no call removes an entry or changes a first_seen.  This is stated    *)
(* of each get_next_token call of lab06, and of the scans of a whole        *)
(* analyze call of lab05 and of a whole successful tokenize call of lab06,  *)
(* through the IDENTIFIER tokens the call returns, in order.                *)
(***************************************************************************)
\* The locations of the IDENTIFIER tokens of lexeme w among tokens, in order.
RECURSIVE IdentifierLocs(_, _)
IdentifierLocs(tokens, w) ==
    IF tokens = <<>> THEN <<>>
    ELSE LET t == Head(tokens)
             rest == IdentifierLocs(Tail(tokens), w)
         IN  IF t.type = "IDENTIFIER" /\ t.value.s = w
             THEN <<<<t.line, t.column>>>> \o rest
             ELSE rest

\* Table new is table old after the identifier scans of tokens, in order.
TableExtendedBy(old, new, tokens) ==
    \A w \in DOMAIN old \cup DOMAIN new
               \cup {tokens[i].value.s : i \in 1..Len(tokens)} :
        LET locs == IdentifierLocs(tokens, w)
        IN  IF w \in DOMAIN old
            THEN /\ w \in DOMAIN new
                 /\ new[w] = [first_seen |-> old[w].first_seen,
                              occurrences |-> old[w].occurrences \o locs]
            ELSE IF locs = <<>> THEN w \notin DOMAIN new
            ELSE /\ w \in DOMAIN new
                 /\ new[w] = [first_seen |-> locs[1], occurrences |-> locs]

C5_FirstSeenAndAppend ==
    [][/\ \A w \in DOMAIN symbol_table :
             /\ w \in DOMAIN symbol_table'
             /\ symbol_table'[w].first_seen = symbol_table[w].first_seen
       /\ (GetNextToken /\ Len(returned') = 1 /\ returned'[1].type = "IDENTIFIER") =>
             LET w == returned'[1].value.s
                 L == <<returned'[1].line, returned'[1].column>>
             IN  /\ DOMAIN symbol_table' = DOMAIN symbol_table \cup {w}
                 /\ \A v \in DOMAIN symbol_table \ {w} :
                        symbol_table'[v] = symbol_table[v]
                 /\ IF w \in DOMAIN symbol_table
                    THEN symbol_table'[w] =
                           [first_seen |-> symbol_table[w].first_seen,
                            occurrences |-> Append(symbol_table[w].occurrences, L)]
                    ELSE symbol_table'[w] =
                           [first_seen |-> L, occurrences |-> <<L>>]
       /\ (sessions' # sessions
             /\ \/ last_call' = "analyze"
                \/ last_call' = "tokenize" /\ printed' = <<>>) =>
             TableExtendedBy(symbol_table, symbol_table', returned')]_vars

\* get_next_token has returned an identifier for the second time, on a later
\* line than the first.
C5_Witness ==
    /\ TokenReturned
    /\ returned[1].type = "IDENTIFIER"
    /\ LET e == symbol_table[returned[1].value.s]
       IN  /\ Len(e.occurrences) = 2
           /\ e.first_seen = e.occurrences[1]
           /\ e.occurrences[2] = <<returned[1].line, returned[1].column>>
           /\ e.occurrences[2][1] > e.first_seen[1]

(***************************************************************************)
(* C6.  No keyword is a key of the symbol table, in any state, however      *)
(* many sessions have scanned keywords.                                     *)
(***************************************************************************)
C6_NoKeywordRecorded == DOMAIN symbol_table \cap Keywords = {}

\* The second session has scanned the keyword "if" while the table holds an
\* identifier.
C6_Witness ==
    /\ sessions = 2
    /\ TokenReturned
    /\ returned[1].type = "IF"
    /\ symbol_table # <<>>

(***************************************************************************)
(* C7.  As claimed: after tokenize(s) (lab06) or analyze(s) (lab05) the     *)
(* symbol table is the one a fresh analyzer builds from s alone, whatever   *)
(* was tokenized before on the same object.                                 *)
(***************************************************************************)
C7_FreshTablePerSession ==
    /\ last_call = "tokenize" =>
           symbol_table = TokenizeOn(FreshAnalyzer, source).st.symbol_table
    /\ last_call = "analyze" =>
           symbol_table = AnalyzeOn(FreshLab05Analyzer, source).st.symbol_table

(***************************************************************************)
(* C8.  Once get_next_token has returned an EOF token (called directly, or  *)
(* as the last call of a tokenize that succeeded), a further call returns   *)
(* an EOF token again, raises nothing and leaves pos, line, column,         *)
(* current_char and the symbol table unchanged.                             *)
(***************************************************************************)
C8_EofIsSticky ==
    [][(/\ GetNextToken
        /\ \/ TokenReturned /\ returned[1].type = "EOF"
           \/ TokenizeSucceeded) =>
           /\ raised' = NoError
           /\ Len(returned') = 1
           /\ returned'[1].type = "EOF"
           /\ UNCHANGED <<source, pos, line, column, current_char, symbol_table>>]_vars

\* get_next_token has returned EOF at the end of a text of two lines that
\* holds an identifier.
C8_Witness ==
    /\ TokenReturned
    /\ returned[1].type = "EOF"
    /\ current_char = None
    /\ line = 2
    /\ symbol_table # <<>>

(***************************************************************************)
(* C9.  As claimed: the line and column of every token get_next_token       *)
(* returns (EOF aside) are the 1-based line and column of the token's       *)
(* first character in the source.                                           *)
(***************************************************************************)
\* The number of newline characters among the first k characters of src.
NewlinesIn(src, k) == Cardinality({i \in 1..k : src[i] = "\n"})

\* The 1-based line of the k-th character of src.
LineOf(src, k) == 1 + NewlinesIn(src, k - 1)

\* The 1-based column of the k-th character of src.
ColumnOf(src, k) ==
    LET before == {i \in 1..(k - 1) : src[i] = "\n"}
        bol == IF before = {} THEN 0
               ELSE CHOOSE i \in before : \A j \in before : j <= i
    IN  k - bol

C9_TokenLocation ==
    [][(GetNextToken /\ Len(returned') = 1 /\ returned'[1].type # "EOF") =>
          LET d == SkipTrivia(Analyzer)
          IN  /\ returned'[1].line = LineOf(source, d.pos)
              /\ returned'[1].column = ColumnOf(source, d.pos)]_vars

(***************************************************************************)
(* C10.  As claimed: in every state of lab06, line is 1 plus the number of  *)
(* newline characters consumed so far, the consumed characters being those  *)
(* before the current character (all of them at the end of input).          *)
(***************************************************************************)
C10_LineCountsNewlines ==
    program = "lab06" =>
      line = 1 + NewlinesIn(source, IF current_char = None THEN pos ELSE pos - 1)

(***************************************************************************)
(* C11.  As claimed: when get_next_token starts a string literal or a char  *)
(* literal that reaches the end of input before its closing quote, whatever *)
(* lies between the opening quote and the end of input, the call raises     *)
(* the Unterminated string literal / Unterminated character literal error,  *)
(* located at the line and column of the opening quote, and returns no      *)
(* token.                                                                   *)
(***************************************************************************)
\* Whether a string literal whose content starts at the k-th character of
\* src has a closing quote: an unescaped " at or after k.
RECURSIVE StringCloses(_, _)
StringCloses(src, k) ==
    IF k > Len(src) THEN FALSE
    ELSE IF src[k] = "\"" THEN TRUE
    ELSE IF src[k] = "\\" THEN StringCloses(src, k + 2)
    ELSE StringCloses(src, k + 1)

\* Whether a char literal whose content starts at the k-th character of src
\* has a quote anywhere after its (possibly escaped) first character.
CharCloses(src, k) ==
    LET after == IF k <= Len(src) /\ src[k] = "\\" THEN k + 2 ELSE k + 1
    IN  \E i \in after..Len(src) : src[i] = "'"

C11_UnterminatedLiteral ==
    [][GetNextToken =>
          LET d == SkipTrivia(Analyzer)
          IN  /\ (d.current_char = "\"" /\ ~StringCloses(source, d.pos + 1)) =>
                    /\ returned' = <<>>
                    /\ raised' = LexicalError("Unterminated string literal", "",
                                              LineOf(source, d.pos),
                                              ColumnOf(source, d.pos))
              /\ (d.current_char = "'" /\ ~CharCloses(source, d.pos + 1)) =>
                    /\ returned' = <<>>
                    /\ raised' = LexicalError("Unterminated character literal", "",
                                              LineOf(source, d.pos),
                                              ColumnOf(source, d.pos))]_vars

(***************************************************************************)
(* C12.  As claimed: when get_next_token starts a number (the dispatch      *)
(* stands on a digit), the number is the longest run of digits and '.'      *)
(* characters from there.  With no '.' in the run the call returns one      *)
(* INTEGER token, with exactly one '.' one FLOAT_LITERAL token, both with   *)
(* the cursor left after the run; with two or more it returns no token and  *)
(* raises the Invalid float literal error located at the line and column    *)
(* of the second '.'.                                                       *)
(***************************************************************************)
\* The index of the last character of the longest run of digits and '.'
\* characters of src that starts at its k-th character.
NumberRunEnd(src, k) ==
    LET runs == {e \in k..Len(src) :
                    \A i \in k..e : IsDigit(src[i]) \/ src[i] = "."}
    IN  CHOOSE e \in runs : \A f \in runs : f <= e

\* The indexes of the '.' characters of that run.
NumberRunDots(src, k) == {i \in k..NumberRunEnd(src, k) : src[i] = "."}

\* The index of the second '.' of that run.
SecondDot(src, k) ==
    LET dots == NumberRunDots(src, k)
    IN  CHOOSE i \in dots : Cardinality({j \in dots : j < i}) = 1

C12_ReadNumber ==
    [][(GetNextToken /\ IsDigit(SkipTrivia(Analyzer).current_char)) =>
          LET d == SkipTrivia(Analyzer)
              e == NumberRunEnd(source, d.pos)
              ndots == Cardinality(NumberRunDots(source, d.pos))
          IN  IF ndots >= 2
              THEN /\ returned' = <<>>
                   /\ raised' = LexicalError("Invalid float literal", "",
                                   LineOf(source, SecondDot(source, d.pos)),
                                   ColumnOf(source, SecondDot(source, d.pos)))
              ELSE /\ raised' = NoError
                   /\ Len(returned') = 1
                   /\ returned'[1].type =
                          IF ndots = 0 THEN "INTEGER" ELSE "FLOAT_LITERAL"
                   /\ current_char' =
                          IF e = Len(source) THEN None ELSE source[e + 1]]_vars

(***************************************************************************)
(* C13.  When get_next_token starts a string literal, the literal's content *)
(* is read from after the opening quote: a backslash followed by one of     *)
(* n, t, ", \ is accepted and kept in the value as the two characters of    *)
(* the source, so that an escaped quote does not end the literal; a         *)
(* backslash followed by any other character raises the Invalid escape      *)
(* sequence error and returns no token; an unescaped quote ends the         *)
(* literal, and the call then returns one STRING token whose value is the   *)
(* content without the two quotes, the cursor being left after the closing  *)
(* quote.                                                                   *)
(***************************************************************************)
\* How the content of a string literal reads when it starts at the k-th
\* character of src: "closed" by the quote at index at, with the value read;
\* "invalid" for the escaped character at index at; "open" when the input
\* ends first.
RECURSIVE StringContent(_, _, _)
StringContent(src, k, value) ==
    IF k > Len(src) THEN [kind |-> "open", value |-> value, at |-> k]
    ELSE IF src[k] = "\"" THEN [kind |-> "closed", value |-> value, at |-> k]
    ELSE IF src[k] # "\\" THEN StringContent(src, k + 1, Append(value, src[k]))
    ELSE IF k + 1 > Len(src) THEN [kind |-> "open", value |-> value, at |-> k + 1]
    ELSE IF src[k + 1] \in {"n", "t", "\"", "\\"}
    THEN StringContent(src, k + 2, value \o <<"\\", src[k + 1]>>)
    ELSE [kind |-> "invalid", value |-> value, at |-> k + 1]

C13_StringEscapes ==
    [][(GetNextToken /\ SkipTrivia(Analyzer).current_char = "\"") =>
          LET d == SkipTrivia(Analyzer)
              c == StringContent(source, d.pos + 1, <<>>)
          IN  /\ c.kind = "closed" =>
                    /\ raised' = NoError
                    /\ Len(returned') = 1
                    /\ returned'[1].type = "STRING"
                    /\ returned'[1].value = StrVal(c.value)
                    /\ current_char' =
                          IF c.at = Len(source) THEN None ELSE source[c.at + 1]
              /\ c.kind = "invalid" =>
                    /\ returned' = <<>>
                    /\ raised'.message = "Invalid escape sequence"]_vars

\* get_next_token has returned a STRING token whose value is an escaped
\* quote, backslash included.
C13_Witness ==
    /\ TokenReturned
    /\ returned[1].type = "STRING"
    /\ returned[1].value = StrVal(<<"\\", "\"">>)
    /\ current_char = None

(***************************************************************************)
(* C14.  As claimed: the escape backslash-c is accepted inside a char       *)
(* literal exactly when it is accepted inside a string literal, that is     *)
(* when c is one of n, t, ", \ ; otherwise get_next_token raises the        *)
(* Invalid escape sequence error.                                           *)
(***************************************************************************)
\* get_next_token starts a literal opened by quote whose first character is
\* a backslash followed by a character.
EscapeAfter(quote) ==
    LET d == SkipTrivia(Analyzer)
    IN  /\ d.current_char = quote
        /\ d.pos + 2 <= Len(source)
        /\ source[d.pos + 1] = "\\"

\* The character that follows that backslash.
EscapedChar == source[SkipTrivia(Analyzer).pos + 2]

C14_SameEscapeRules ==
    [][(GetNextToken /\ EscapeAfter("'")) =>
          (raised'.message = "Invalid escape sequence"
              <=> EscapedChar \notin {"n", "t", "\"", "\\"})]_vars

(***************************************************************************)
(* C14, amended.  The recognized escapes differ by the quote: backslash-c   *)
(* is accepted inside a char literal exactly when c is one of n, t, ', \    *)
(* and inside a string literal exactly when c is one of n, t, ", \ ; an     *)
(* escape that is not accepted raises the Invalid escape sequence error at  *)
(* the escaped character.  (Checked on the escape that follows the opening  *)
(* quote; the error is told apart from one raised later in a string by the  *)
(* column it reports, the scanner's column at the escaped character.)       *)
(***************************************************************************)
C14_EscapeRulesPerQuote ==
    [][GetNextToken =>
          LET d == SkipTrivia(Analyzer)
              rejected == /\ returned' = <<>>
                          /\ raised' = LexicalError("Invalid escape sequence", "",
                                                    d.line, d.column + 2)
          IN  /\ EscapeAfter("'") =>
                    (rejected <=> EscapedChar \notin {"n", "t", "'", "\\"})
              /\ EscapeAfter("\"") =>
                    (rejected <=> EscapedChar \notin {"n", "t", "\"", "\\"})]_vars

\* get_next_token has returned the char literal of an escaped single quote.
C14_Witness ==
    /\ TokenReturned
    /\ source = <<"'", "\\", "'", "'">>
    /\ returned[1].type = "CHAR_LITERAL"
    /\ returned[1].value = StrVal(<<"\\", "'">>)

(***************************************************************************)
(* C15.  As claimed: when the character the dispatch of get_next_token      *)
(* stands on starts no identifier, number, string or char literal and is    *)
(* no operator or delimiter of the table (a '!' that is not followed by     *)
(* '=' is none), the call returns no token and raises the Invalid           *)
(* character error, naming that character, at the character's line and      *)
(* column.                                                                  *)
(***************************************************************************)
\* The dispatch stands on a character that starts no token.
StartsNoToken(st) ==
    /\ st.current_char # None
    /\ ~IsSpace(st.current_char)
    /\ ~IsCommentStart(st)
    /\ ~(IsAlpha(st.current_char) \/ st.current_char = "_")
    /\ ~IsDigit(st.current_char)
    /\ st.current_char \notin {"\"", "'"}
    /\ <<st.current_char>> \notin Operators
    /\ ~(st.current_char \in {"=", "!", "<", ">"} /\ Peek(st) = "=")

C15_InvalidCharacter ==
    [][(GetNextToken /\ StartsNoToken(SkipTrivia(Analyzer))) =>
          LET d == SkipTrivia(Analyzer)
          IN  /\ returned' = <<>>
              /\ raised' = LexicalError("Invalid character: ", d.current_char,
                                        LineOf(source, d.pos),
                                        ColumnOf(source, d.pos))]_vars

(***************************************************************************)
(* C16.  Whenever lab06 tokenize is called on a source that consists only   *)
(* of whitespace characters and well-formed comments (a // comment ends at  *)
(* a newline or at the end of the source, a multi-line comment at its       *)
(* closing star-slash), in any number and order, the empty source           *)
(* included, it prints no error and returns exactly one token, EOF, and     *)
(* the symbol table is left as it was.                                      *)
(***************************************************************************)
\* The least element of a non-empty set of integers.
Least(S) == CHOOSE i \in S : \A j \in S : i <= j

\* Whether src, from its k-th character on, consists only of whitespace and
\* well-formed comments.
RECURSIVE OnlyTrivia(_, _)
OnlyTrivia(src, k) ==
    IF k > Len(src) THEN TRUE
    ELSE IF IsSpace(src[k]) THEN OnlyTrivia(src, k + 1)
    ELSE IF src[k] = "/" /\ k < Len(src) /\ src[k + 1] = "/"
    THEN LET newlines == {i \in (k + 2)..Len(src) : src[i] = "\n"}
         IN  newlines = {} \/ OnlyTrivia(src, Least(newlines))
    ELSE IF src[k] = "/" /\ k < Len(src) /\ src[k + 1] = "*"
    THEN LET closings == {i \in (k + 2)..(Len(src) - 1) :
                             src[i] = "*" /\ src[i + 1] = "/"}
         IN  closings # {} /\ OnlyTrivia(src, Least(closings) + 2)
    ELSE FALSE

C16_OnlyTriviaGivesEOF ==
    [][(last_call' = "tokenize" /\ OnlyTrivia(source', 1)) =>
          /\ printed' = <<>>
          /\ Len(returned') = 1
          /\ returned'[1].type = "EOF"
          /\ symbol_table' = symbol_table]_vars

\* tokenize has returned [EOF] for a source that is one multi-line comment.
C16_Witness ==
    /\ last_call = "tokenize"
    /\ source = <<"/", "*", "*", "/">>
    /\ Len(returned) = 1
    /\ returned[1].type = "EOF"
    /\ symbol_table = <<>>

(***************************************************************************)
(* C17.  When get_next_token is called with nothing but whitespace between  *)
(* the cursor and a multi-line comment whose closing star-slash never       *)
(* appears, the call raises no error: the comment is consumed to the end    *)
(* of input, the cursor is left there (current_char is the sentinel and     *)
(* pos the length of the source), no token is made of the comment's         *)
(* characters, and the token returned is EOF.                               *)
(***************************************************************************)
\* The index of the first character at or after the cursor that is not
\* whitespace, or 0 when there is none.
FirstNonSpace ==
    LET rest == {i \in 1..Len(source) :
                    /\ i >= pos
                    /\ current_char # None
                    /\ ~IsSpace(source[i])}
    IN  IF rest = {} THEN 0 ELSE Least(rest)

\* An unclosed multi-line comment is the next thing to scan.
UnclosedCommentAhead ==
    LET k == FirstNonSpace
    IN  /\ k > 0
        /\ k < Len(source)
        /\ source[k] = "/"
        /\ source[k + 1] = "*"
        /\ \A i \in (k + 2)..(Len(source) - 1) :
               ~(source[i] = "*" /\ source[i + 1] = "/")

C17_UnclosedCommentIsSkipped ==
    [][(GetNextToken /\ UnclosedCommentAhead) =>
          /\ raised' = NoError
          /\ Len(returned') = 1
          /\ returned'[1].type = "EOF"
          /\ current_char' = None
          /\ pos' = Len(source)]_vars

\* get_next_token has returned EOF at the end of a source that ends in an
\* unclosed comment spanning two lines, after a token on the first line.
C17_Witness ==
    /\ TokenReturned
    /\ source = <<"x", "/", "*", "\n">>
    /\ returned[1].type = "EOF"
    /\ current_char = None
    /\ line = 2

(***************************************************************************)
(* C18.  In a source without string and char literals (no quote             *)
(* character), the line of every token get_next_token returns (EOF aside)   *)
(* is 1 plus the number of newline characters that precede the token's      *)
(* first character, newlines inside multi-line comments included; and when  *)
(* the call starts on a single-line comment, skip_comment stops on the      *)
(* comment's newline without consuming it (or at the end of input when      *)
(* there is none).                                                          *)
(***************************************************************************)
\* The source holds no quote character.
NoLiterals == \A i \in 1..Len(source) : source[i] \notin {"\"", "'"}

\* The cursor stands on the // of a single-line comment.
OnSingleLineComment ==
    current_char = "/" /\ pos < Len(source) /\ source[pos + 1] = "/"

C18_TokenLine ==
    [][(GetNextToken /\ NoLiterals) =>
          /\ (Len(returned') = 1 /\ returned'[1].type # "EOF") =>
                 returned'[1].line = LineOf(source, SkipTrivia(Analyzer).pos)
          /\ OnSingleLineComment =>
                 LET c == SkipComment(Analyzer)
                     newlines == {i \in pos..Len(source) : source[i] = "\n"}
                 IN  IF newlines = {}
                     THEN c.current_char = None /\ c.pos = Len(source)
                     ELSE c.current_char = "\n" /\ c.pos = Least(newlines)]_vars

\* get_next_token has returned, with line 2, the identifier that follows a
\* single-line comment and its newline.
C18_Witness ==
    /\ TokenReturned
    /\ source = <<"/", "/", "\n", "x">>
    /\ returned[1].type = "IDENTIFIER"
    /\ returned[1].line = 2

(***************************************************************************)
(* C19.  After a lab06 tokenize that met no error, in a session that        *)
(* started with a fresh analyzer, the symbol table has an entry for a       *)
(* lexeme exactly when the returned tokens hold at least one IDENTIFIER     *)
(* token of that lexeme, and the entry's occurrences are, in order, the     *)
(* (line, column) of those IDENTIFIER tokens and of no other.               *)
(***************************************************************************)
\* The lexemes of the IDENTIFIER tokens among tokens.
IdentifierLexemes(tokens) ==
    {tokens[i].value.s : i \in {j \in 1..Len(tokens) : tokens[j].type = "IDENTIFIER"}}

C19_TableMatchesTokens ==
    TokenizeSucceeded =>
        /\ DOMAIN symbol_table = IdentifierLexemes(returned)
        /\ \A w \in DOMAIN symbol_table :
               symbol_table[w].occurrences = IdentifierLocs(returned, w)

\* tokenize has returned two occurrences of one identifier, on two lines,
\* around a delimiter, and the table holds that identifier alone, with both
\* occurrences in the order of the tokens.
C19_Witness ==
    /\ TokenizeSucceeded
    /\ \E i \in 1..Len(returned) : returned[i].type = "SEMICOLON"
    /\ DOMAIN symbol_table = {<<"x">>}
    /\ Len(symbol_table[<<"x">>].occurrences) = 2
    /\ symbol_table[<<"x">>].occurrences[1][1] = 1
    /\ symbol_table[<<"x">>].occurrences[2][1] = 2

(***************************************************************************)
(* C20.  The text of a token, and a source without its whitespace and       *)
(* comments.  A Token keeps its value only (the decoded number for a        *)
(* number, the content for a string or char literal, the lexeme for the     *)
(* rest); the text it gives back is the one Token.__str__ formats.          *)
(***************************************************************************)
DigitChar(k) ==
    CASE k = 0 -> "0" [] k = 1 -> "1" [] k = 2 -> "2" [] k = 3 -> "3"
      [] k = 4 -> "4" [] k = 5 -> "5" [] k = 6 -> "6" [] k = 7 -> "7"
      [] k = 8 -> "8" [] k = 9 -> "9"

\* str(k) of a natural number k.
RECURSIVE IntText(_)
IntText(k) ==
    IF k < 10 THEN <<DigitChar(k)>>
    ELSE Append(IntText(k \div 10), DigitChar(k % 10))

RECURSIVE Pow10(_)
Pow10(e) == IF e = 0 THEN 1 ELSE 10 * Pow10(e - 1)

\* The e decimals of f / 10^e, leading zeros included.
RECURSIVE Decimals(_, _)
Decimals(f, e) ==
    IF e = 0 THEN <<>>
    ELSE Append(Decimals(f \div 10, e - 1), DigitChar(f % 10))

\* str(k / 10^e) of a float in lowest form, in the range where Python
\* prints no exponent (1e-4 <= x < 1e16, or 0), which the sources here
\* stay in.
FloatText(k, e) ==
    IntText(k \div Pow10(e)) \o <<".">> \o
        (IF e = 0 THEN <<"0">> ELSE Decimals(k % Pow10(e), e))

\* The text of a value in an f-string: str(value).
ValueText(v) ==
    CASE v.tag = "str" -> v.s
      [] v.tag = "int" -> IntText(v.n)
      [] v.tag = "float" -> FloatText(v.n, v.d)
      [] v.tag = "None" -> <<"N", "o", "n", "e">>

\* The index of the last character of the char literal opened at the k-th
\* character of src.
CharLiteralEnd(src, k) ==
    IF k < Len(src) /\ src[k + 1] = "\\" THEN k + 3 ELSE k + 2

\* src from its k-th character on, without whitespace and comments and with
\* its literals, quotes included, as they are written.
RECURSIVE Stripped(_, _)
Stripped(src, k) ==
    IF k > Len(src) THEN <<>>
    ELSE IF IsSpace(src[k]) THEN Stripped(src, k + 1)
    ELSE IF src[k] = "/" /\ k < Len(src) /\ src[k + 1] = "/"
    THEN LET newlines == {i \in (k + 2)..Len(src) : src[i] = "\n"}
         IN  IF newlines = {} THEN <<>> ELSE Stripped(src, Least(newlines))
    ELSE IF src[k] = "/" /\ k < Len(src) /\ src[k + 1] = "*"
    THEN LET closings == {i \in (k + 2)..(Len(src) - 1) :
                             src[i] = "*" /\ src[i + 1] = "/"}
         IN  IF closings = {} THEN <<>> ELSE Stripped(src, Least(closings) + 2)
    ELSE IF src[k] = "\""
    THEN LET c == StringContent(src, k + 1, <<>>)
         IN  IF c.kind = "closed"
             THEN SubSeq(src, k, c.at) \o Stripped(src, c.at + 1)
             ELSE SubSeq(src, k, Len(src))
    ELSE IF src[k] = "'"
    THEN LET e == CharLiteralEnd(src, k)
         IN  IF e <= Len(src)
             THEN SubSeq(src, k, e) \o Stripped(src, e + 1)
             ELSE SubSeq(src, k, Len(src))
    ELSE <<src[k]>> \o Stripped(src, k + 1)

\* The texts that text gives for the tokens before EOF, one after another.
RECURSIVE Concatenated(_, _, _)
Concatenated(tokens, i, text) ==
    IF i > Len(tokens) \/ tokens[i].type = "EOF" THEN <<>>
    ELSE text[tokens[i]] \o Concatenated(tokens, i + 1, text)

\* The tokens that tokenize can return for the sources of the model.
ReturnedTokens == {returned[i] : i \in 1..Len(returned)}

(***************************************************************************)
(* C20.  As claimed: after every tokenize that met no error, the texts of   *)
(* the returned tokens, in order and EOF aside, concatenate to the source   *)
(* without its whitespace and comments, the quotes and escapes of literals  *)
(* and the spelling of numbers being those of the source.                   *)
(***************************************************************************)
C20_RoundTrip ==
    TokenizeSucceeded =>
        Concatenated(returned, 1, [t \in ReturnedTokens |-> ValueText(t.value)])
            = Stripped(source, 1)

(***************************************************************************)
(* C20, amended.  After every tokenize that met no error and returned no    *)
(* INTEGER and no FLOAT_LITERAL token, the values of the returned tokens,   *)
(* in order and EOF aside, with a pair of double quotes put back around     *)
(* the value of each STRING token and a pair of single quotes around the    *)
(* value of each CHAR_LITERAL token, concatenate to the source without its  *)
(* whitespace and comments; escapes are kept as written.                    *)
(***************************************************************************)
\* The lexeme of a token that is no number: its value, inside its quotes
\* for a literal.
Requoted(t) ==
    CASE t.type = "STRING" -> <<"\"">> \o t.value.s \o <<"\"">>
      [] t.type = "CHAR_LITERAL" -> <<"'">> \o t.value.s \o <<"'">>
      [] OTHER -> ValueText(t.value)

C20_RoundTripOfValues ==
    (/\ TokenizeSucceeded
     /\ \A t \in ReturnedTokens : t.type \notin {"INTEGER", "FLOAT_LITERAL"}) =>
        Concatenated(returned, 1, [t \in ReturnedTokens |-> Requoted(t)])
            = Stripped(source, 1)

\* tokenize has returned an identifier and a STRING token from a source that
\* also holds whitespace.
C20_Witness ==
    /\ TokenizeSucceeded
    /\ Len(returned) = 3
    /\ returned[1].type = "IDENTIFIER"
    /\ returned[2].type = "STRING"
    /\ \E i \in 1..Len(source) : IsSpace(source[i])

(***************************************************************************)
(* C21.  As claimed: the text of the value of every token get_next_token    *)
(* returns, EOF aside, is not empty and occurs in the source as a           *)
(* contiguous run of characters.                                            *)
(***************************************************************************)
\* text occurs in src as a contiguous run of characters.
OccursIn(text, src) ==
    \E i \in 1..(Len(src) + 1) :
        /\ i + Len(text) - 1 <= Len(src)
        /\ SubSeq(src, i, i + Len(text) - 1) = text

C21_ValueIsSubstring ==
    [][(GetNextToken /\ Len(returned') = 1 /\ returned'[1].type # "EOF") =>
          LET text == ValueText(returned'[1].value)
          IN  text # <<>> /\ OccursIn(text, source)]_vars

(***************************************************************************)
(* C21, amended.  The value of every token get_next_token returns that is   *)
(* neither EOF nor a number is the run of source characters that starts at  *)
(* the token's first character, or right after the opening quote for a      *)
(* STRING or CHAR_LITERAL token, and it is not empty unless the token is    *)
(* the STRING of the empty literal.  The value of an INTEGER or             *)
(* FLOAT_LITERAL token is the number its run of digits and '.' spells,      *)
(* not that run.                                                            *)
(***************************************************************************)
C21_ValueIsSourceRun ==
    [][(GetNextToken /\ Len(returned') = 1 /\ returned'[1].type # "EOF") =>
          LET t == returned'[1]
              d == SkipTrivia(Analyzer)
              from == IF t.type \in {"STRING", "CHAR_LITERAL"}
                      THEN d.pos + 1 ELSE d.pos
              run == SubSeq(source, d.pos, NumberRunEnd(source, d.pos))
          IN  IF t.type = "INTEGER" THEN t.value = IntVal(DecodeInt(run))
              ELSE IF t.type = "FLOAT_LITERAL" THEN t.value = DecodeFloat(run)
              ELSE /\ t.value.tag = "str"
                   /\ from + Len(t.value.s) - 1 <= Len(source)
                   /\ t.value.s = SubSeq(source, from, from + Len(t.value.s) - 1)
                   /\ t.value.s = <<>> =>
                          (t.type = "STRING" /\ source[d.pos + 1] = "\"")]_vars

\* get_next_token has returned the STRING token of the empty literal.
C21_Witness ==
    /\ TokenReturned
    /\ returned[1].type = "STRING"
    /\ returned[1].value = StrVal(<<>>)

(***************************************************************************)
(* C22.  As claimed: when tokenize is called again with the source it was   *)
(* last called with, each call being a tokenization session of its own, it  *)
(* returns the same tokens (types, values, lines and columns, in order)     *)
(* and leaves a symbol table with the same entries, the same first_seen     *)
(* and the same number of occurrences as the first call left.               *)
(***************************************************************************)
C22_Idempotence ==
    [][(last_call = "tokenize" /\ last_call' = "tokenize" /\ source' = source) =>
          /\ returned' = returned
          /\ DOMAIN symbol_table' = DOMAIN symbol_table
          /\ \A w \in DOMAIN symbol_table :
                 /\ symbol_table'[w].first_seen = symbol_table[w].first_seen
                 /\ Len(symbol_table'[w].occurrences) =
                        Len(symbol_table[w].occurrences)]_vars

(***************************************************************************)
(* The chained symbol table of exam/lab07.py.  A behaviour of SpecScopes    *)
(* is a sequence of enter_scope, exit_scope, define and resolve calls on    *)
(* one ChainedSymbolTable.  A Scope object is its index in scopes, NoScope  *)
(* where the code has None; a Symbol is referred to by the scope that       *)
(* holds it and its name (a scope never replaces a symbol it holds).        *)
(***************************************************************************)
\* Number of Scope objects one table creates, the global scope included.
MaxScopes == 3

Names == {"x", "y"}

SymbolTypes == {"VARIABLE", "FUNCTION"}

NoScope == 0

\* Symbol.__init__.
Symbol(name, symbol_type, data_type) ==
    [name |-> name, symbol_type |-> symbol_type, data_type |-> data_type,
     line_declared |-> 0, scope_level |-> 0]

\* The Scope objects after Scope.__init__ creates one more.
ScopeCreated(heap, parent, scope_name) ==
    LET self == Len(heap) + 1
        new == [symbols |-> <<>>, parent |-> parent, children |-> <<>>,
                scope_name |-> scope_name,
                level |-> IF parent = NoScope THEN 0 ELSE heap[parent].level + 1]
        grown == Append(heap, new)
    IN  IF parent # NoScope
        THEN [grown EXCEPT ![parent].children = Append(@, self)]
        ELSE grown

\* A variant of Scope.define that replaces a symbol the scope holds.
ScopeDefine_Replaces(heap, self, symbol) ==
    LET stored == [symbol EXCEPT !.scope_level = heap[self].level]
        old == heap[self].symbols
    IN  [result |-> symbol.name \notin DOMAIN old,
         heap |-> [heap EXCEPT ![self].symbols =
                      [n \in DOMAIN old \cup {symbol.name} |->
                          IF n = symbol.name THEN stored ELSE old[n]]]]

\* Scope.define on the scope self: what it returns and the Scope objects
\* afterwards.
ScopeDefine(heap, self, symbol) ==
    IF symbol.name \in DOMAIN heap[self].symbols
    THEN [result |-> FALSE, heap |-> heap]
    ELSE LET stored == [symbol EXCEPT !.scope_level = heap[self].level]
             old == heap[self].symbols
         IN  [result |-> TRUE,
              heap |-> [heap EXCEPT ![self].symbols =
                           [n \in DOMAIN old \cup {symbol.name} |->
                               IF n = symbol.name THEN stored ELSE old[n]]]]

\* What resolve returns: the symbol found, with the scope that holds it, or
\* None.
Found(scope, symbol) == [found |-> TRUE, scope |-> scope, symbol |-> symbol]

NotFound == [found |-> FALSE, scope |-> NoScope, symbol |-> Symbol("", "", "")]

\* A variant of Scope.resolve that looks in the scope itself only.
ScopeResolve_LocalOnly(heap, self, name) ==
    IF self # NoScope /\ name \in DOMAIN heap[self].symbols
    THEN Found(self, heap[self].symbols[name])
    ELSE NotFound

\* Scope.resolve, the loop from the scope current on.
RECURSIVE ScopeResolve(_, _, _)
ScopeResolve(heap, current, name) ==
    IF current = NoScope THEN NotFound
    ELSE IF name \in DOMAIN heap[current].symbols
    THEN Found(current, heap[current].symbols[name])
    ELSE ScopeResolve(heap, heap[current].parent, name)

\* The fields of the lexical analyzers, which lab07 does not have.
LexerVars ==
    <<source, pos, line, column, current_char, symbol_table, printed, sessions>>

\* ChainedSymbolTable.__init__.
InitScopes ==
    /\ program = "lab07"
    /\ source = <<>>
    /\ pos = 0
    /\ line = 1
    /\ column = 1
    /\ current_char = None
    /\ symbol_table = <<>>
    /\ printed = <<>>
    /\ sessions = 0
    /\ raised = NoError
    /\ last_call = "__init__"
    /\ returned = <<>>
    /\ scopes = ScopeCreated(<<>>, NoScope, "global")
    /\ global_scope = 1
    /\ current_scope = 1
    /\ scope_stack = <<1>>
    /\ indent = 0
    /\ lookahead = NoLookahead

\* A variant of enter_scope that creates the new scope under the global
\* scope.
EnterScope_UnderGlobal(scope_name) ==
    LET new_scope == Len(scopes) + 1
    IN  /\ program = "lab07"
        /\ Len(scopes) < MaxScopes
        /\ scopes' = ScopeCreated(scopes, global_scope, scope_name)
        /\ scope_stack' = Append(scope_stack, new_scope)
        /\ current_scope' = new_scope
        /\ returned' = <<new_scope>>
        /\ last_call' = "enter_scope"
        /\ UNCHANGED <<program, global_scope, raised, LexerVars, indent, lookahead>>

EnterScope(scope_name) ==
    LET new_scope == Len(scopes) + 1
    IN  /\ program = "lab07"
        /\ Len(scopes) < MaxScopes
        /\ scopes' = ScopeCreated(scopes, current_scope, scope_name)
        /\ scope_stack' = Append(scope_stack, new_scope)
        /\ current_scope' = new_scope
        /\ returned' = <<new_scope>>
        /\ last_call' = "enter_scope"
        /\ UNCHANGED <<program, global_scope, raised, LexerVars, indent, lookahead>>

ExitScope ==
    /\ program = "lab07"
    /\ IF Len(scope_stack) > 1
       THEN LET popped == SubSeq(scope_stack, 1, Len(scope_stack) - 1)
            IN  /\ scope_stack' = popped
                /\ current_scope' = popped[Len(popped)]
                /\ returned' = <<popped[Len(popped)]>>
       ELSE /\ returned' = <<NoScope>>
            /\ UNCHANGED <<scope_stack, current_scope>>
    /\ last_call' = "exit_scope"
    /\ UNCHANGED <<program, scopes, global_scope, raised, LexerVars, indent, lookahead>>

Define(name, symbol_type, data_type, line_declared) ==
    LET symbol == [Symbol(name, symbol_type, data_type)
                      EXCEPT !.line_declared = line_declared]
        r == ScopeDefine(scopes, current_scope, symbol)
    IN  /\ program = "lab07"
        /\ last_call' = "define"
        /\ scopes' = r.heap
        /\ returned' = <<r.result>>
        /\ UNCHANGED <<program, global_scope, current_scope, scope_stack,
                       raised, LexerVars, indent, lookahead>>

Resolve(name) ==
    /\ program = "lab07"
    /\ last_call' = "resolve"
    /\ returned' = <<ScopeResolve(scopes, current_scope, name)>>
    /\ UNCHANGED <<program, ScopeVars, raised, LexerVars, indent, lookahead>>

ScopesNext ==
    \/ EnterScope("block")
    \/ ExitScope
    \/ \E name \in Names, symbol_type \in SymbolTypes :
           Define(name, symbol_type, "int", 0)
    \/ \E name \in Names : Resolve(name)

SpecScopes == InitScopes /\ [][ScopesNext]_vars

(***************************************************************************)
(* C23.  Whenever resolve(name) is called, after any sequence of            *)
(* enter_scope, exit_scope and define calls, it returns the symbol that     *)
(* name has in the innermost of the scopes now entered (those of            *)
(* scope_stack, from current_scope out to the global scope) that define     *)
(* name, and None exactly when none of them defines it; a symbol held by a  *)
(* scope that was exited, or by a sibling of an entered scope, is never     *)
(* returned.                                                                *)
(***************************************************************************)
\* The positions in scope_stack of the entered scopes that define name.
DefinedAt(name) ==
    {i \in 1..Len(scope_stack) : name \in DOMAIN scopes[scope_stack[i]].symbols}

\* The symbol of name under the most-closely-nested rule.
MostCloselyNested(name) ==
    IF DefinedAt(name) = {} THEN NotFound
    ELSE LET i == CHOOSE k \in DefinedAt(name) : \A j \in DefinedAt(name) : j <= k
             s == scope_stack[i]
         IN  Found(s, scopes[s].symbols[name])

C23_ResolveMostCloselyNested ==
    [][\A name \in Names :
          Resolve(name) => returned'[1] = MostCloselyNested(name)]_vars

\* resolve has returned the global scope's symbol from a scope entered after
\* another scope, which holds a different symbol of that name, was exited.
C23_Witness ==
    /\ last_call = "resolve"
    /\ Len(scopes) = 3
    /\ scope_stack = <<1, 3>>
    /\ returned[1].found
    /\ returned[1].scope = 1
    /\ returned[1].symbol.name \in DOMAIN scopes[2].symbols
    /\ scopes[2].symbols[returned[1].symbol.name] # returned[1].symbol

(***************************************************************************)
(* C24.  Whenever define is called, it returns False exactly when the name  *)
(* is already defined in the current scope, and then no scope changes, the  *)
(* symbol stored under the name included; otherwise it returns True and     *)
(* the current scope gains the symbol, with the arguments given and with    *)
(* scope_level the level of that scope, nothing else changing: a symbol of  *)
(* the same name in an enclosing scope neither prevents the definition nor  *)
(* is modified.                                                             *)
(***************************************************************************)
C24_Define ==
    [][\A name \in Names, symbol_type \in SymbolTypes :
          Define(name, symbol_type, "int", 0) =>
              LET held == scopes[current_scope].symbols
              IN  /\ returned'[1] = (name \notin DOMAIN held)
                  /\ UNCHANGED <<scope_stack, current_scope, global_scope>>
                  /\ \A s \in 1..Len(scopes) :
                         s # current_scope => scopes'[s] = scopes[s]
                  /\ Len(scopes') = Len(scopes)
                  /\ IF name \in DOMAIN held
                     THEN scopes' = scopes
                     ELSE scopes'[current_scope] =
                            [scopes[current_scope] EXCEPT !.symbols =
                                [n \in DOMAIN held \cup {name} |->
                                    IF n = name
                                    THEN [name |-> name,
                                          symbol_type |-> symbol_type,
                                          data_type |-> "int",
                                          line_declared |-> 0,
                                          scope_level |-> scopes[current_scope].level]
                                    ELSE held[n]]]]_vars

\* define has returned True in an inner scope for a name that the global
\* scope defines as well, with another symbol.
C24_Witness ==
    /\ last_call = "define"
    /\ returned[1] = TRUE
    /\ scope_stack = <<1, 2>>
    /\ \E name \in Names :
           /\ DOMAIN scopes[2].symbols = {name}
           /\ name \in DOMAIN scopes[1].symbols
           /\ scopes[1].symbols[name].symbol_type # scopes[2].symbols[name].symbol_type
           /\ scopes[2].symbols[name].scope_level = 1

(***************************************************************************)
(* The infix-to-postfix translator of exam/lab03.py.  A behaviour of        *)
(* SpecPostfix is one call of InfixToPostfix.translate: source is the       *)
(* expression given, returned its result (one string) and raised the        *)
(* ValueError that left it.                                                 *)
(***************************************************************************)
\* Longest expression over the operators and parentheses.
MaxExpr == 5

ExprAlphabet == {"a", "+", "*", "(", ")"}

\* Longest expression over the larger alphabet of tokenize.
MaxLexExpr == 4

LexExprAlphabet == {"a", "1", ".", " ", "-", "/", "(", "$"}

\* Longest text inside the parentheses of the longer expressions.
MaxInner == 3

\* Expressions with one pair of parentheses around an inner text, with or
\* without an operand and an operator before it and an operator and an
\* operand after it.
Parenthesized ==
    {before \o <<"(">> \o inner \o <<")">> \o after :
        before \in {<<>>, <<"a", "+">>, <<"a", "*">>},
        inner \in SeqsOver({"a", "+", "*"}, MaxInner),
        after \in {<<>>, <<"+", "a">>, <<"*", "a">>}}

Expressions ==
    SeqsOver(ExprAlphabet, MaxExpr) \cup SeqsOver(LexExprAlphabet, MaxLexExpr)
      \cup Parenthesized

\* A ValueError, in the shape of the errors of the lexical analyzers.
ValueError(message, detail) ==
    [message |-> message, detail |-> detail, line |-> 0, column |-> 0]

Lab03Token(type, value) == [type |-> type, value |-> value]

\* The index after the run of digits and '.' that starts at index i.
RECURSIVE Lab03NumberEnd(_, _)
Lab03NumberEnd(expression, i) ==
    IF i <= Len(expression) /\ (IsDigit(expression[i]) \/ expression[i] = ".")
    THEN Lab03NumberEnd(expression, i + 1)
    ELSE i

\* The index after the run of letters and digits that starts at index i.
RECURSIVE Lab03VariableEnd(_, _)
Lab03VariableEnd(expression, i) ==
    IF i <= Len(expression) /\ IsAlnum(expression[i])
    THEN Lab03VariableEnd(expression, i + 1)
    ELSE i

\* InfixToPostfix.tokenize, the loop from index i (1-based) on.
RECURSIVE Lab03TokenizeLoop(_, _, _)
Lab03TokenizeLoop(expression, i, tokens) ==
    IF i > Len(expression) THEN [tokens |-> tokens, err |-> NoError]
    ELSE LET char == expression[i]
         IN  IF IsSpace(char) THEN Lab03TokenizeLoop(expression, i + 1, tokens)
             ELSE IF IsDigit(char)
             THEN LET e == Lab03NumberEnd(expression, i)
                  IN  Lab03TokenizeLoop(expression, e,
                          Append(tokens,
                                 Lab03Token("NUMBER", SubSeq(expression, i, e - 1))))
             ELSE IF IsAlpha(char)
             THEN LET e == Lab03VariableEnd(expression, i)
                  IN  Lab03TokenizeLoop(expression, e,
                          Append(tokens,
                                 Lab03Token("VARIABLE", SubSeq(expression, i, e - 1))))
             ELSE IF char \in {"+", "-", "*", "/", "(", ")"}
             THEN Lab03TokenizeLoop(expression, i + 1,
                      Append(tokens, Lab03Token("OPERATOR", <<char>>)))
             ELSE [tokens |-> <<>>,
                   err |-> ValueError("Invalid character: ", char)]

Lab03Tokenize(expression) == Lab03TokenizeLoop(expression, 1, <<>>)

\* A variant of the precedence table that ranks the four operators alike.
Precedence_Flat(op) == IF op = <<"(">> THEN 0 ELSE 1

\* self.precedence.
Precedence(op) ==
    CASE op = <<"+">> -> 1 [] op = <<"-">> -> 1
      [] op = <<"*">> -> 2 [] op = <<"/">> -> 2
      [] op = <<"(">> -> 0

\* The loop of the ')' branch: pops to output down to a '('.
RECURSIVE PopToParen(_, _)
PopToParen(operator_stack, output) ==
    IF operator_stack # <<>> /\ operator_stack[Len(operator_stack)] # <<"(">>
    THEN PopToParen(SubSeq(operator_stack, 1, Len(operator_stack) - 1),
                    Append(output, operator_stack[Len(operator_stack)]))
    ELSE [operator_stack |-> operator_stack, output |-> output]

\* The loop of the operator branch: pops the operators that bind at least
\* as tightly as value.
RECURSIVE PopHigher(_, _, _)
PopHigher(operator_stack, output, value) ==
    IF /\ operator_stack # <<>>
       /\ operator_stack[Len(operator_stack)] # <<"(">>
       /\ Precedence(operator_stack[Len(operator_stack)]) >= Precedence(value)
    THEN PopHigher(SubSeq(operator_stack, 1, Len(operator_stack) - 1),
                   Append(output, operator_stack[Len(operator_stack)]), value)
    ELSE [operator_stack |-> operator_stack, output |-> output]

\* A variant of the final loop that moves a '(' to the output like an
\* operator.
RECURSIVE PopRemaining_KeepsParen(_, _)
PopRemaining_KeepsParen(operator_stack, output) ==
    IF operator_stack = <<>> THEN [output |-> output, err |-> NoError]
    ELSE PopRemaining_KeepsParen(
             SubSeq(operator_stack, 1, Len(operator_stack) - 1),
             Append(output, operator_stack[Len(operator_stack)]))

\* The loop "Pop remaining operators".
RECURSIVE PopRemaining(_, _)
PopRemaining(operator_stack, output) ==
    IF operator_stack = <<>> THEN [output |-> output, err |-> NoError]
    ELSE LET op == operator_stack[Len(operator_stack)]
         IN  IF op = <<"(">>
             THEN [output |-> output,
                   err |-> ValueError("Mismatched parentheses", "")]
             ELSE PopRemaining(SubSeq(operator_stack, 1, Len(operator_stack) - 1),
                               Append(output, op))

\* The loop of translate over the tokens from index i on, then the final
\* loop.
RECURSIVE TranslateLoop(_, _, _, _)
TranslateLoop(tokens, i, operator_stack, output) ==
    IF i > Len(tokens) THEN PopRemaining(operator_stack, output)
    ELSE LET token == tokens[i]
         IN  IF token.type \in {"NUMBER", "VARIABLE"}
             THEN TranslateLoop(tokens, i + 1, operator_stack,
                                Append(output, token.value))
             ELSE IF token.value = <<"(">>
             THEN TranslateLoop(tokens, i + 1,
                                Append(operator_stack, token.value), output)
             ELSE IF token.value = <<")">>
             THEN LET p == PopToParen(operator_stack, output)
                  IN  IF p.operator_stack # <<>>
                      THEN TranslateLoop(tokens, i + 1,
                               SubSeq(p.operator_stack, 1, Len(p.operator_stack) - 1),
                               p.output)
                      ELSE [output |-> p.output,
                            err |-> ValueError("Mismatched parentheses", "")]
             ELSE LET p == PopHigher(operator_stack, output, token.value)
                  IN  TranslateLoop(tokens, i + 1,
                                    Append(p.operator_stack, token.value), p.output)

\* ' '.join(output).
RECURSIVE JoinWithSpaces(_)
JoinWithSpaces(output) ==
    IF output = <<>> THEN <<>>
    ELSE IF Len(output) = 1 THEN output[1]
    ELSE output[1] \o <<" ">> \o JoinWithSpaces(Tail(output))

\* InfixToPostfix.translate: the string returned, or the ValueError raised.
Lab03Translate(expression) ==
    LET t == Lab03Tokenize(expression)
        r == TranslateLoop(t.tokens, 1, <<>>, <<>>)
    IN  IF t.err # NoError THEN [result |-> <<>>, err |-> t.err]
        ELSE IF r.err # NoError THEN [result |-> <<>>, err |-> r.err]
        ELSE [result |-> JoinWithSpaces(r.output), err |-> NoError]

\* The state of a program that is one function of a text: no analyzer and
\* no symbol table.
NoObjects ==
    /\ pos = 0
    /\ line = 1
    /\ column = 1
    /\ current_char = None
    /\ symbol_table = <<>>
    /\ printed = <<>>
    /\ sessions = 0
    /\ scopes = <<>>
    /\ global_scope = 0
    /\ current_scope = 0
    /\ scope_stack = <<>>
    /\ indent = 0
    /\ lookahead = NoLookahead

\* InfixToPostfix.__init__.
InitPostfix ==
    /\ program = "lab03"
    /\ source = <<>>
    /\ last_call = "__init__"
    /\ returned = <<>>
    /\ raised = NoError
    /\ NoObjects

Translate(expression) ==
    LET r == Lab03Translate(expression)
    IN  /\ program = "lab03"
        /\ last_call' = "translate"
        /\ source' = expression
        /\ returned' = IF r.err = NoError THEN <<r.result>> ELSE <<>>
        /\ raised' = r.err
        /\ UNCHANGED <<program, pos, line, column, current_char, symbol_table,
                       printed, sessions, ScopeVars, indent, lookahead>>

\* One call on a freshly constructed translator (it keeps nothing between
\* calls but the precedence table).
PostfixNext ==
    last_call = "__init__" /\ \E expression \in Expressions : Translate(expression)

SpecPostfix == InitPostfix /\ [][PostfixNext]_vars

(***************************************************************************)
(* C25.  The postfix form of a well-formed infix expression, read off the   *)
(* grammar  expr -> term { addop term },  term -> factor { mulop factor },  *)
(* factor -> number | variable | ( expr ),  addop being + or - and mulop    *)
(* the star or the slash: the postfix form of an operand                    *)
(* is the operand, that of  l op r  is the forms of l and r followed by     *)
(* op, and that of ( e ) is the form of e.  Each operand and operator       *)
(* occurrence thus appears once, the operands in their order, and no        *)
(* parenthesis appears; the repetitions group to the left.  A parse is      *)
(* [ok, next, out]: whether it succeeded, the index of the token after it   *)
(* and the postfix form, a list of token values.                            *)
(***************************************************************************)
ParseFailed == [ok |-> FALSE, next |-> 0, out |-> <<>>]

IsOperator(tokens, i, ops) ==
    i <= Len(tokens) /\ tokens[i].type = "OPERATOR" /\ tokens[i].value \in ops

RECURSIVE ParseExpr(_, _)
RECURSIVE ParseExprRest(_, _, _)
RECURSIVE ParseTerm(_, _)
RECURSIVE ParseTermRest(_, _, _)
RECURSIVE ParseFactor(_, _)

ParseFactor(tokens, i) ==
    IF i > Len(tokens) THEN ParseFailed
    ELSE IF tokens[i].type \in {"NUMBER", "VARIABLE"}
    THEN [ok |-> TRUE, next |-> i + 1, out |-> <<tokens[i].value>>]
    ELSE IF IsOperator(tokens, i, {<<"(">>})
    THEN LET e == ParseExpr(tokens, i + 1)
         IN  IF e.ok /\ IsOperator(tokens, e.next, {<<")">>})
             THEN [e EXCEPT !.next = e.next + 1]
             ELSE ParseFailed
    ELSE ParseFailed

ParseTermRest(tokens, i, out) ==
    IF IsOperator(tokens, i, {<<"*">>, <<"/">>})
    THEN LET f == ParseFactor(tokens, i + 1)
         IN  IF f.ok
             THEN ParseTermRest(tokens, f.next, out \o f.out \o <<tokens[i].value>>)
             ELSE ParseFailed
    ELSE [ok |-> TRUE, next |-> i, out |-> out]

ParseTerm(tokens, i) ==
    LET f == ParseFactor(tokens, i)
    IN  IF f.ok THEN ParseTermRest(tokens, f.next, f.out) ELSE ParseFailed

ParseExprRest(tokens, i, out) ==
    IF IsOperator(tokens, i, {<<"+">>, <<"-">>})
    THEN LET t == ParseTerm(tokens, i + 1)
         IN  IF t.ok
             THEN ParseExprRest(tokens, t.next, out \o t.out \o <<tokens[i].value>>)
             ELSE ParseFailed
    ELSE [ok |-> TRUE, next |-> i, out |-> out]

ParseExpr(tokens, i) ==
    LET t == ParseTerm(tokens, i)
    IN  IF t.ok THEN ParseExprRest(tokens, t.next, t.out) ELSE ParseFailed

\* The tokens are a well-formed infix expression, all of them.
WellFormed(tokens) ==
    LET e == ParseExpr(tokens, 1)
    IN  e.ok /\ e.next = Len(tokens) + 1

(***************************************************************************)
(* C25.  After translate is called on an expression whose tokens are a      *)
(* well-formed infix expression over numbers, variables, the four           *)
(* operators and parentheses, it has raised nothing and returned the        *)
(* postfix form of the expression, its items joined by single spaces.       *)
(***************************************************************************)
C25_TranslateGivesPostfix ==
    (last_call = "translate" /\ Lab03Tokenize(source).err = NoError
        /\ WellFormed(Lab03Tokenize(source).tokens)) =>
        /\ raised = NoError
        /\ returned = <<JoinWithSpaces(ParseExpr(Lab03Tokenize(source).tokens, 1).out)>>

\* translate has returned the postfix form of (a+a)*a, in which the
\* parentheses override the precedence of *.
C25_Witness ==
    /\ last_call = "translate"
    /\ source = <<"(", "a", "+", "a", ")", "*", "a">>
    /\ returned = <<<<"a", " ", "a", " ", "+", " ", "a", " ", "*">>>>

(***************************************************************************)
(* The predictive parser of exam/lab01.py.  A behaviour of SpecParser is    *)
(* one call of parse_stmt on a PredictiveParser over a LexerStub: source    *)
(* is the stub's token list, pos its position, indent the parser's indent,  *)
(* raised the ParserError that left the call.  The lines that log() writes  *)
(* to the console are not kept.                                             *)
(***************************************************************************)
\* Longest token list given to the parser.
MaxTokens == 5

TokenAlphabet == {"if", "for", "others", "(", ")", ";", "x"}

\* The two token lists that the program itself parses.
TestCases ==
    {<<"if", "(", "expr", ")", "expr", ";">>,
     <<"for", "(", "x", ";", "y", ")", "others">>}

TokenLists == SeqsOver(TokenAlphabet, MaxTokens) \cup TestCases

\* The parser with its lexer.
Parser == [tokens |-> source, pos |-> pos, indent |-> indent]

\* ParserError(f'Expected {expected}, got {tok}').
ParserError(expected, tok) ==
    [message |-> CASE expected = "expression" -> "Expected expression, got "
                   [] expected = "(" -> "Expected (, got "
                   [] expected = ")" -> "Expected ), got "
                   [] expected = ";" -> "Expected ;, got ",
     detail |-> tok, line |-> 0, column |-> 0]

Proceeds(st) == [st |-> st, err |-> NoError]

\* LexerStub.peek.
Lab01Peek(st) ==
    IF st.pos < Len(st.tokens) THEN st.tokens[st.pos + 1] ELSE None

\* The parser after LexerStub.next.
Lab01Next(st) ==
    IF Lab01Peek(st) # None THEN [st EXCEPT !.pos = st.pos + 1] ELSE st

\* PredictiveParser._expect.
Lab01Expect(st, expected) ==
    LET tok == Lab01Peek(st)
    IN  IF tok # expected
        THEN [st |-> Lab01Next(st), err |-> ParserError(expected, tok)]
        ELSE Proceeds(Lab01Next(st))

\* PredictiveParser.parse_expr.
Lab01ParseExpr(st) ==
    LET tok == Lab01Peek(st)
    IN  IF tok = None \/ tok \in {";", ")"}
        THEN [st |-> Lab01Next(st), err |-> ParserError("expression", tok)]
        ELSE Proceeds(Lab01Next(st))

\* A variant of parse_optexpr that takes no empty expression.
Lab01ParseOptexpr_NeverEmpty(st) == Lab01ParseExpr(st)

\* PredictiveParser.parse_optexpr.
Lab01ParseOptexpr(st) ==
    LET tok == Lab01Peek(st)
    IN  IF tok # ";" /\ tok # ")" THEN Lab01ParseExpr(st) ELSE Proceeds(st)

\* PredictiveParser.parse_stmt: the parser afterwards and the ParserError
\* raised, if any.  Each step of a branch runs where the one before raised
\* nothing, and indent is decremented only when the statement completes.
RECURSIVE Lab01ParseStmt(_)
Lab01ParseStmt(st) ==
    LET tok == Lab01Peek(st)
        in == [st EXCEPT !.indent = st.indent + 1]
        if1 == Lab01Expect(Lab01Next(in), "(")
        if2 == IF if1.err # NoError THEN if1 ELSE Lab01ParseExpr(if1.st)
        if3 == IF if2.err # NoError THEN if2 ELSE Lab01Expect(if2.st, ")")
        if4 == IF if3.err # NoError THEN if3 ELSE Lab01ParseStmt(if3.st)
        for1 == Lab01Expect(Lab01Next(in), "(")
        for2 == IF for1.err # NoError THEN for1 ELSE Lab01ParseOptexpr(for1.st)
        for3 == IF for2.err # NoError THEN for2 ELSE Lab01Expect(for2.st, ";")
        for4 == IF for3.err # NoError THEN for3 ELSE Lab01ParseOptexpr(for3.st)
        for5 == IF for4.err # NoError THEN for4 ELSE Lab01Expect(for4.st, ")")
        for6 == IF for5.err # NoError THEN for5 ELSE Lab01ParseStmt(for5.st)
        expr1 == Lab01ParseExpr(in)
        expr2 == IF expr1.err # NoError THEN expr1
                 ELSE Lab01Expect(expr1.st, ";")
        body == IF tok = "if" THEN if4
                ELSE IF tok = "for" THEN for6
                ELSE IF tok = "others" THEN Proceeds(Lab01Next(in))
                ELSE expr2
    IN  IF body.err # NoError THEN body
        ELSE Proceeds([body.st EXCEPT !.indent = body.st.indent - 1])

\* LexerStub(tokens) and PredictiveParser(lexer), as test_parser builds them.
InitParser ==
    /\ program = "lab01"
    /\ source \in TokenLists
    /\ last_call = "__init__"
    /\ returned = <<>>
    /\ raised = NoError
    /\ NoObjects

ParseStmt ==
    LET r == Lab01ParseStmt(Parser)
    IN  /\ program = "lab01"
        /\ last_call' = "parse_stmt"
        /\ pos' = r.st.pos
        /\ indent' = r.st.indent
        /\ raised' = r.err
        /\ returned' = <<>>
        /\ UNCHANGED <<program, source, line, column, current_char,
                       symbol_table, printed, sessions, ScopeVars, lookahead>>

\* One call on a parser just built.
ParserNext == last_call = "__init__" /\ ParseStmt

SpecParser == InitParser /\ [][ParserNext]_vars

(***************************************************************************)
(* C26: the statements that parse_stmt accepts.                             *)
(***************************************************************************)
\* An expr of the grammar stands at index i: one token, neither ; nor ).
ExprAt(tokens, i) == i <= Len(tokens) /\ tokens[i] \notin {";", ")"}

TokenAt(tokens, i, tok) == i <= Len(tokens) /\ tokens[i] = tok

\* The indices after an optexpr that starts at index i.
OptexprEnds(tokens, i) ==
    {i} \cup (IF ExprAt(tokens, i) THEN {i + 1} ELSE {})

\* The indices after the strings derivable from stmt that start at index
\* i, where the expr of an expression statement is none of the reserved
\* tokens.
RECURSIVE StmtEnds(_, _, _)
StmtEnds(tokens, i, reserved) ==
    LET exprStmt ==
            IF /\ ExprAt(tokens, i)
               /\ tokens[i] \notin reserved
               /\ TokenAt(tokens, i + 1, ";")
            THEN {i + 2} ELSE {}
        ifStmt ==
            IF /\ TokenAt(tokens, i, "if")
               /\ TokenAt(tokens, i + 1, "(")
               /\ ExprAt(tokens, i + 2)
               /\ TokenAt(tokens, i + 3, ")")
            THEN StmtEnds(tokens, i + 4, reserved) ELSE {}
        forStmt ==
            IF TokenAt(tokens, i, "for") /\ TokenAt(tokens, i + 1, "(")
            THEN UNION {UNION {StmtEnds(tokens, b + 1, reserved) :
                               b \in {e \in OptexprEnds(tokens, a + 1) :
                                          TokenAt(tokens, e, ")")}} :
                        a \in {e \in OptexprEnds(tokens, i + 2) :
                                   TokenAt(tokens, e, ";")}}
            ELSE {}
        others == IF TokenAt(tokens, i, "others") THEN {i + 1} ELSE {}
    IN  exprStmt \cup ifStmt \cup forStmt \cup others

ParserErrors ==
    {ParserError(expected, tok) :
        expected \in {"expression", "(", ")", ";"},
        tok \in TokenAlphabet \cup {None, "expr", "y"}}

\* C26 as stated: parse_stmt returns without ParserError exactly when the
\* token list starts with a string derivable from stmt, where expr is any
\* single token other than ; and ).
C26_AcceptsGrammar ==
    last_call = "parse_stmt" =>
        (raised = NoError <=> StmtEnds(source, 1, {}) # {})

\* C26, amended: parse_stmt returns without ParserError exactly when the
\* token list starts with a string derivable from stmt, where expr is any
\* single token other than ; and ) and the expr of an expression statement
\* is moreover neither if nor for; it then stands after that string with
\* its indent back at 0, and otherwise it raises a ParserError.
C26_AcceptsPredictiveGrammar ==
    last_call = "parse_stmt" =>
        /\ raised = NoError <=> StmtEnds(source, 1, {"if", "for"}) # {}
        /\ raised = NoError =>
               /\ pos + 1 \in StmtEnds(source, 1, {"if", "for"})
               /\ indent = 0
        /\ raised # NoError => raised \in ParserErrors /\ indent > 0

C26_Witness ==
    /\ last_call = "parse_stmt"
    /\ source = <<"for", "(", ";", ")", "others">>
    /\ raised = NoError
    /\ pos = 5

(***************************************************************************)
(* The whitespace skipper of exam/lab04.py.  A behaviour of SpecSkipper is  *)
(* one call of skip_whitespace on a WhitespaceSkipper just built: source,   *)
(* pos, line and column are its fields, returned holds the cleaned text.    *)
(***************************************************************************)
\* Longest source given to the skipper.
MaxSkipLen == 5

SkipAlphabet == {"a", " ", "\t", "\n", "/", "*"}

SkipSources == SeqsOver(SkipAlphabet, MaxSkipLen)

\* WhitespaceSkipper.__init__.
Skipper == [pos |-> pos, line |-> line, column |-> column, result |-> <<>>]

\* The inner loop of a single-line comment: up to the newline.
RECURSIVE Lab04SkipSingleLine(_, _)
Lab04SkipSingleLine(src, st) ==
    IF st.pos < Len(src) /\ src[st.pos + 1] # "\n"
    THEN Lab04SkipSingleLine(src, [st EXCEPT !.pos = st.pos + 1])
    ELSE st

\* The inner loop of a multi-line comment: it runs while pos + 1 <
\* len(source), so it stops on the last character of an unclosed comment.
RECURSIVE Lab04SkipMultiLine(_, _)
Lab04SkipMultiLine(src, st) ==
    IF st.pos + 1 < Len(src)
    THEN IF src[st.pos + 1] = "*" /\ src[st.pos + 2] = "/"
         THEN [st EXCEPT !.pos = st.pos + 2]
         ELSE Lab04SkipMultiLine(src,
                  IF src[st.pos + 1] = "\n"
                  THEN [st EXCEPT !.pos = st.pos + 1,
                                  !.line = st.line + 1, !.column = 1]
                  ELSE [st EXCEPT !.pos = st.pos + 1])
    ELSE st

\* The outer loop of skip_whitespace.
RECURSIVE Lab04SkipLoop(_, _)
Lab04SkipLoop(src, st) ==
    IF st.pos >= Len(src) THEN st
    ELSE LET char == src[st.pos + 1]
             follows(c) == st.pos + 1 < Len(src) /\ src[st.pos + 2] = c
         IN  IF IsSpace(char)
             THEN Lab04SkipLoop(src,
                      IF char = "\n"
                      THEN [st EXCEPT !.pos = st.pos + 1,
                                      !.line = st.line + 1, !.column = 1]
                      ELSE IF char = "\t"
                      THEN [st EXCEPT !.pos = st.pos + 1,
                                      !.column = st.column + 4]
                      ELSE [st EXCEPT !.pos = st.pos + 1,
                                      !.column = st.column + 1])
             ELSE IF char = "/" /\ follows("/")
             THEN Lab04SkipLoop(src,
                      Lab04SkipSingleLine(src, [st EXCEPT !.pos = st.pos + 2]))
             ELSE IF char = "/" /\ follows("*")
             THEN Lab04SkipLoop(src,
                      Lab04SkipMultiLine(src, [st EXCEPT !.pos = st.pos + 2]))
             ELSE Lab04SkipLoop(src,
                      [st EXCEPT !.result = Append(st.result, char),
                                 !.column = st.column + 1,
                                 !.pos = st.pos + 1])

\* WhitespaceSkipper(source), as main builds it.
InitSkipper ==
    /\ program = "lab04"
    /\ source \in SkipSources
    /\ last_call = "__init__"
    /\ returned = <<>>
    /\ raised = NoError
    /\ NoObjects

\* WhitespaceSkipper.skip_whitespace.
Lab04SkipWhitespace ==
    LET st == Lab04SkipLoop(source, Skipper)
    IN  /\ program = "lab04"
        /\ last_call' = "skip_whitespace"
        /\ pos' = st.pos
        /\ line' = st.line
        /\ column' = st.column
        /\ returned' = <<st.result>>
        /\ UNCHANGED <<program, source, current_char, symbol_table, raised,
                       printed, sessions, ScopeVars, indent, lookahead>>

\* One call on a skipper just built.
SkipperNext == last_call = "__init__" /\ Lab04SkipWhitespace

SpecSkipper == InitSkipper /\ [][SkipperNext]_vars

(***************************************************************************)
(* C27: what skip_whitespace returns.                                       *)
(***************************************************************************)
\* The characters of src from index k on that are neither whitespace nor
\* part of a comment: a // comment runs to the end of its line, a comment
\* opened by slash-star to the first star-slash after the opening, or to the end of the
\* input when there is none.
RECURSIVE CleanedFrom(_, _)
CleanedFrom(src, k) ==
    IF k > Len(src) THEN <<>>
    ELSE IF IsSpace(src[k]) THEN CleanedFrom(src, k + 1)
    ELSE IF src[k] = "/" /\ k < Len(src) /\ src[k + 1] = "/"
    THEN LET newlines == {i \in (k + 2)..Len(src) : src[i] = "\n"}
         IN  IF newlines = {} THEN <<>>
             ELSE CleanedFrom(src, Least(newlines))
    ELSE IF src[k] = "/" /\ k < Len(src) /\ src[k + 1] = "*"
    THEN LET closers == {i \in (k + 2)..(Len(src) - 1) :
                             src[i] = "*" /\ src[i + 1] = "/"}
         IN  IF closers = {} THEN <<>>
             ELSE CleanedFrom(src, Least(closers) + 2)
    ELSE <<src[k]>> \o CleanedFrom(src, k + 1)

\* C27: skip_whitespace returns exactly the characters of the source that
\* are neither whitespace nor part of a comment, in their original order
\* (an unclosed multi-line comment running to the end of the input).
C27_SkipWhitespace ==
    last_call = "skip_whitespace" => returned = <<CleanedFrom(source, 1)>>

(***************************************************************************)
(* C28: termination of tokenization.                                        *)
(***************************************************************************)
\* The number of get_next_token calls that the loop of tokenize makes
\* from analyzer st.
RECURSIVE ScannerCalls(_)
ScannerCalls(st) ==
    LET r == GetNextTokenOn(st)
    IN  IF r.err # NoError \/ r.tok.type = "EOF" THEN 1
        ELSE 1 + ScannerCalls(r.st)

\* C28 as stated: every get_next_token call raises a lexical error, or
\* returns EOF, or returns one token after strictly increasing pos.
C28_PosIncreases ==
    [][GetNextToken =>
          \/ raised' # NoError
          \/ Len(returned') = 1 /\ returned'[1].type = "EOF"
          \/ Len(returned') = 1 /\ pos' > pos]_vars

\* C28, amended: every get_next_token call raises a lexical error, or
\* returns EOF with the whole source consumed, or returns one token after
\* consuming at least one more source character, where the characters
\* consumed are those before current_char (pos itself stays at len(source)
\* when a token ends the source); never more than len(source) characters
\* are consumed, and tokenize makes at most len(source) + 1 scanner calls.
C28_ConsumesOrEnds ==
    [][LET consumed == IF current_char = None THEN pos ELSE pos - 1
           consumedAfter == IF current_char' = None THEN pos' ELSE pos' - 1
       IN  /\ GetNextToken =>
                /\ raised' = NoError <=> Len(returned') = 1
                /\ consumedAfter <= Len(source')
                /\ consumedAfter >= consumed
                /\ pos' >= pos
                /\ raised' = NoError =>
                      IF returned'[1].type = "EOF"
                      THEN consumedAfter = Len(source')
                      ELSE consumedAfter > consumed
           /\ last_call' = "tokenize" =>
                /\ ScannerCalls(InitScannerOn(FreshAnalyzer, source'))
                       <= Len(source') + 1
                /\ printed' = <<>> => Len(returned') <= Len(source') + 1]_vars

\* A token that ends the source was returned: pos did not move.
C28_Witness ==
    /\ last_call = "get_next_token"
    /\ source = <<"x", ";">>
    /\ Len(returned) = 1
    /\ returned[1].type = "SEMICOLON"
    /\ current_char = None
    /\ pos = 2

(***************************************************************************)
(* C29: columns of the tokens of one line.                                  *)
(***************************************************************************)
\* The source offsets (from 1) of the first characters of the tokens that
\* tokenize collects from analyzer st, the EOF token left out.
RECURSIVE TokenStarts(_)
TokenStarts(st) ==
    LET t == SkipTrivia(st)
        r == Dispatch(t)
    IN  IF r.err # NoError \/ r.tok.type = "EOF" THEN <<>>
        ELSE <<t.pos>> \o TokenStarts(r.st)

\* C29: in a token sequence returned by tokenize, two tokens whose first
\* characters lie on the same source line have reported columns that
\* differ by the difference of the offsets of their first characters.
C29_UniformColumns ==
    TokenizeSucceeded =>
        LET starts == TokenStarts(InitScannerOn(FreshAnalyzer, source))
        IN  /\ Len(starts) = Len(returned) - 1
            /\ \A i, j \in 1..Len(starts) :
                   LineOf(source, starts[i]) = LineOf(source, starts[j]) =>
                       returned[j].column - returned[i].column
                           = starts[j] - starts[i]

(***************************************************************************)
(* C30: the occurrence table after a failed tokenize.                       *)
(***************************************************************************)
\* The tokens that successive get_next_token calls return from analyzer
\* st before the call that raises or returns EOF.
RECURSIVE ScannedTokens(_)
ScannedTokens(st) ==
    LET r == GetNextTokenOn(st)
    IN  IF r.err # NoError \/ r.tok.type = "EOF" THEN <<>>
        ELSE <<r.tok>> \o ScannedTokens(r.st)

\* C30: a tokenize that fails with a lexical error returns the empty list
\* and leaves the occurrence table extended by every identifier scanned
\* before the error point, with its occurrences; nothing is rolled back.
C30_TableKeptOnError ==
    [][(last_call' = "tokenize" /\ printed' # <<>>) =>
          LET scanned == ScannedTokens(InitScannerOn(FreshAnalyzer, source'))
          IN  /\ returned' = <<>>
              /\ TableExtendedBy(symbol_table, symbol_table', scanned)
              /\ \A i \in 1..Len(scanned) :
                     scanned[i].type = "IDENTIFIER" =>
                         /\ scanned[i].value.s \in DOMAIN symbol_table'
                         /\ \E k \in 1..Len(symbol_table'[scanned[i].value.s].occurrences) :
                                symbol_table'[scanned[i].value.s].occurrences[k]
                                    = <<scanned[i].line, scanned[i].column>>]_vars

\* A failed tokenize that had scanned the identifier a twice before the
\* unterminated string.
C30_Witness ==
    /\ TokenizeFailed
    /\ source = <<"a", "\n", "a", "\"">>
    /\ returned = <<>>
    /\ DOMAIN symbol_table = {<<"a">>}
    /\ Len(symbol_table[<<"a">>].occurrences) = 2

(***************************************************************************)
(* C31: the scope stack.                                                    *)
(***************************************************************************)
\* scope_stack is non-empty and starts with the global scope, current_scope
\* is its top, and every other entry has the entry below it as its parent
\* and its depth in the stack as its level.
ScopeStackInvariant ==
    /\ scope_stack # <<>>
    /\ scope_stack[1] = global_scope
    /\ scopes[global_scope].parent = NoScope
    /\ scopes[global_scope].level = 0
    /\ current_scope = scope_stack[Len(scope_stack)]
    /\ \A i \in 2..Len(scope_stack) :
           /\ scopes[scope_stack[i]].parent = scope_stack[i - 1]
           /\ scopes[scope_stack[i]].level = i - 1

\* C31: the scope-stack invariant holds before and after every call;
\* exit_scope at the global scope returns None and changes nothing, and
\* otherwise pops exactly one scope and returns the new current scope, the
\* parent of the scope left.
C31_ScopeStack ==
    [][/\ ScopeStackInvariant
       /\ ScopeStackInvariant'
       /\ last_call' = "exit_scope" =>
              IF current_scope = global_scope
              THEN /\ returned' = <<NoScope>>
                   /\ UNCHANGED ScopeVars
              ELSE /\ scope_stack' = SubSeq(scope_stack, 1, Len(scope_stack) - 1)
                   /\ current_scope' = scopes[current_scope].parent
                   /\ returned' = <<current_scope'>>
                   /\ UNCHANGED <<scopes, global_scope>>]_vars

\* exit_scope has left the innermost of two nested scopes.
C31_Witness ==
    /\ last_call = "exit_scope"
    /\ Len(scopes) = 3
    /\ scope_stack = <<1, 2>>
    /\ returned = <<2>>
    /\ scopes[3].parent = 2

(***************************************************************************)
(* C32: mismatched parentheses.                                             *)
(***************************************************************************)
\* The number of tokens with the given value among the first k tokens.
CountOf(tokens, k, value) ==
    Cardinality({i \in 1..k : tokens[i].value = value})

\* The parentheses of the tokens are properly balanced and nested: no
\* prefix closes more than it opens, and all that are opened are closed.
Balanced(tokens) ==
    /\ \A k \in 1..Len(tokens) :
           CountOf(tokens, k, <<")">>) <= CountOf(tokens, k, <<"(">>)
    /\ CountOf(tokens, Len(tokens), <<")">>)
           = CountOf(tokens, Len(tokens), <<"(">>)

\* C32: after translate is called on an expression that tokenize accepts,
\* it has raised ValueError('Mismatched parentheses') exactly when the
\* parentheses of the tokens are not properly balanced and nested, it has
\* raised nothing else, and the output list, to which translate only
\* appends, holds no '(' either at the raise or at the return.
C32_MismatchedParentheses ==
    (last_call = "translate" /\ Lab03Tokenize(source).err = NoError) =>
        LET tokens == Lab03Tokenize(source).tokens
            run == TranslateLoop(tokens, 1, <<>>, <<>>)
        IN  /\ raised = ValueError("Mismatched parentheses", "")
                  <=> ~Balanced(tokens)
            /\ raised = NoError <=> Balanced(tokens)
            /\ \A i \in 1..Len(run.output) : run.output[i] # <<"(">>
            /\ raised = NoError =>
                   /\ returned = <<JoinWithSpaces(run.output)>>
                   /\ \A i \in 1..Len(returned[1]) :
                          returned[1][i] \notin {"(", ")"}

\* translate has raised for a '(' that is never closed, after it had
\* appended to the output.
C32_Witness ==
    /\ last_call = "translate"
    /\ source = <<"(", "a", "+", "a">>
    /\ raised = ValueError("Mismatched parentheses", "")
    /\ returned = <<>>
    /\ TranslateLoop(Lab03Tokenize(source).tokens, 1, <<>>, <<>>).output
           = <<<<"a">>, <<"a">>, <<"+">>>>

(***************************************************************************)
(* The lexer and parser of exam/lab02.py.  A behaviour of SpecCalc starts   *)
(* with a Lexer built on an input text: source is its input_text, pos its   *)
(* input_index, line its line, current_char its peek and symbol_table its   *)
(* words.  Then either scan is called on it directly, or a Parser is built  *)
(* on it and expr is called: lookahead is the parser's lookahead, printed   *)
(* what expr has printed and raised the exception that left it.  The text   *)
(* is not empty: on an empty text read_char reads the standard input.       *)
(***************************************************************************)
\* Longest input text over InputAlphabet.
MaxInput == 4

InputAlphabet == {"1", "+", "-", " ", "\n", "a"}

\* The two inputs that the program itself parses, and a reserved word.
CalcTestCases ==
    {<<"3", "+", "4", "-", "1">>, <<"9", "-", "5", "+", "2">>,
     <<"t", "r", "u", "e">>}

Inputs == (SeqsOver(InputAlphabet, MaxInput) \ {<<>>}) \cup CalcTestCases

\* The character that read_char returns at the end of the input text.
Nul == "\\0"

TagNUM == 256

TagID == 257

TagTRUE == 258

TagFALSE == 259

\* ord(c) of the characters that scan turns into single-character tokens.
Ord(c) ==
    CASE c = Nul -> 0 [] c = "+" -> 43 [] c = "-" -> 45

\* Token(tag): a token with a tag and nothing else.
Lab02Token(tag) ==
    [tag |-> tag, class |-> "Token", value |-> 0, lexeme |-> <<>>]

\* Num(value).
Num(value) ==
    [tag |-> TagNUM, class |-> "Num", value |-> value, lexeme |-> <<>>]

\* Word(tag, lexeme).
Word(tag, lexeme) ==
    [tag |-> tag, class |-> "Word", value |-> 0, lexeme |-> lexeme]

\* Lexer.__init__: the words reserved.
ReservedWords ==
    [s \in {<<"t", "r", "u", "e">>, <<"f", "a", "l", "s", "e">>} |->
        IF s = <<"t", "r", "u", "e">> THEN Word(TagTRUE, s)
        ELSE Word(TagFALSE, s)]

\* The Lexer object.
Lexer ==
    [input_text |-> source, input_index |-> pos, line |-> line,
     peek |-> current_char, words |-> symbol_table]

\* An exception of the given class; a SyntaxError of match carries the
\* two tags of its message in the fields line and column.
Lab02Error(class, message, expected, got) ==
    [message |-> message, detail |-> class, line |-> expected, column |-> got]

\* Lexer.read_char followed by the assignment to peek.
ReadChar(st) ==
    IF st.input_index < Len(st.input_text)
    THEN [st EXCEPT !.peek = st.input_text[st.input_index + 1],
                    !.input_index = st.input_index + 1]
    ELSE [st EXCEPT !.peek = Nul]

\* The loop "Skip whitespace" of scan: the lexer afterwards, and whether
\* the loop returned from scan at the end of the input.
RECURSIVE SkipBlanks(_)
SkipBlanks(st) ==
    IF st.peek \in {" ", "\t", "\n"}
    THEN LET counted == IF st.peek = "\n"
                        THEN [st EXCEPT !.line = st.line + 1] ELSE st
             read == ReadChar(counted)
         IN  IF read.peek = Nul THEN [st |-> read, ended |-> TRUE]
             ELSE SkipBlanks(read)
    ELSE [st |-> st, ended |-> FALSE]

\* The loop of "Handle numbers".
RECURSIVE ScanNumber(_, _)
ScanNumber(st, v) ==
    IF IsDigit(st.peek)
    THEN ScanNumber(ReadChar(st), v * 10 + DigitValue(st.peek))
    ELSE [st |-> st, tok |-> Num(v)]

\* The loop of "Handle identifiers and keywords", and the lookup.
RECURSIVE ScanWord(_, _)
ScanWord(st, buffer) ==
    IF IsAlnum(st.peek) THEN ScanWord(ReadChar(st), Append(buffer, st.peek))
    ELSE IF buffer \in DOMAIN st.words
    THEN [st |-> st, tok |-> st.words[buffer]]
    ELSE LET w == Word(TagID, buffer)
         IN  [st |-> [st EXCEPT !.words =
                         [s \in DOMAIN st.words \cup {buffer} |->
                             IF s = buffer THEN w ELSE st.words[s]]],
              tok |-> w]

\* The return inside the whitespace loop, at the end of the input.
ScanAtEnd(st) == [st |-> st, tok |-> Lab02Token(TagNUM)]

\* Lexer.scan: the lexer afterwards and the token returned.
Scan(st) ==
    LET b == SkipBlanks(st)
    IN  IF b.ended THEN ScanAtEnd(b.st)
        ELSE IF IsDigit(b.st.peek) THEN ScanNumber(b.st, 0)
        ELSE IF IsAlpha(b.st.peek) THEN ScanWord(b.st, <<>>)
        ELSE [st |-> [b.st EXCEPT !.peek = " "],
              tok |-> Lab02Token(Ord(b.st.peek))]

\* The parser with its lexer and what it has printed.
Calc ==
    [lexer |-> Lexer, lookahead |-> lookahead, printed |-> printed,
     err |-> NoError]

\* Parser.match.
Match(st, expected_tag) ==
    IF st.lookahead.tag = expected_tag
    THEN LET s == Scan(st.lexer)
         IN  [st EXCEPT !.lexer = s.st, !.lookahead = s.tok]
    ELSE [st EXCEPT !.err = Lab02Error("SyntaxError", "Expected tag, got tag",
                                       expected_tag, st.lookahead.tag)]

\* Parser.term; a token made by Token(tag) has no attribute value.
Term(st) ==
    IF st.lookahead.tag = TagNUM
    THEN IF st.lookahead.class # "Num"
         THEN [st EXCEPT !.err =
                  Lab02Error("AttributeError",
                             "'Token' object has no attribute 'value'", 0, 0)]
         ELSE Match([st EXCEPT !.printed =
                        Append(st.printed, IntText(st.lookahead.value))],
                    TagNUM)
    ELSE [st EXCEPT !.err = Lab02Error("SyntaxError", "Expected number", 0, 0)]

\* The loop of Parser.expr.
RECURSIVE ExprLoop(_)
ExprLoop(st) ==
    IF st.lookahead.tag \in {Ord("+"), Ord("-")}
    THEN LET op == IF st.lookahead.tag = Ord("+") THEN "+" ELSE "-"
             m == Match(st, Ord(op))
             t == IF m.err # NoError THEN m ELSE Term(m)
         IN  IF t.err # NoError THEN t
             ELSE ExprLoop([t EXCEPT !.printed = Append(t.printed, <<op>>)])
    ELSE st

\* Parser.expr.
Lab02Expr(st) ==
    LET t == Term(st)
    IN  IF t.err # NoError THEN t ELSE ExprLoop(t)

\* Lexer(input_text).
InitCalc ==
    /\ program = "lab02"
    /\ source \in Inputs
    /\ pos = 0
    /\ line = 1
    /\ column = 1
    /\ current_char = " "
    /\ symbol_table = ReservedWords
    /\ last_call = "__init__"
    /\ returned = <<>>
    /\ raised = NoError
    /\ printed = <<>>
    /\ sessions = 0
    /\ scopes = <<>>
    /\ global_scope = 0
    /\ current_scope = 0
    /\ scope_stack = <<>>
    /\ indent = 0
    /\ lookahead = NoLookahead

\* The fields of the lexer become those of st.
LexerBecomes(st) ==
    /\ pos' = st.input_index
    /\ line' = st.line
    /\ current_char' = st.peek
    /\ symbol_table' = st.words

\* lexer.scan(), called on a lexer that no parser reads.
ScanCall ==
    LET r == Scan(Lexer)
    IN  /\ program = "lab02"
        /\ last_call \in {"__init__", "scan"}
        /\ last_call' = "scan"
        /\ LexerBecomes(r.st)
        /\ returned' = <<r.tok>>
        /\ UNCHANGED <<program, source, column, raised, printed, sessions,
                       ScopeVars, indent, lookahead>>

\* Parser(lexer), on a lexer just built.
NewParser ==
    LET r == Scan(Lexer)
    IN  /\ program = "lab02"
        /\ last_call = "__init__"
        /\ last_call' = "Parser"
        /\ LexerBecomes(r.st)
        /\ lookahead' = r.tok
        /\ UNCHANGED <<program, source, column, returned, raised, printed,
                       sessions, ScopeVars, indent>>

\* parser.expr(), on a parser just built.
Expr ==
    LET r == Lab02Expr(Calc)
    IN  /\ program = "lab02"
        /\ last_call = "Parser"
        /\ last_call' = "expr"
        /\ LexerBecomes(r.lexer)
        /\ lookahead' = r.lookahead
        /\ printed' = r.printed
        /\ raised' = r.err
        /\ UNCHANGED <<program, source, column, returned, sessions,
                       ScopeVars, indent>>

CalcNext == ScanCall \/ NewParser \/ Expr

SpecCalc == InitCalc /\ [][CalcNext]_vars

(***************************************************************************)
(* C33: malformed input of the lab02 parser.                                *)
(***************************************************************************)
\* The token is tagged as a number but is no Num: it has no value.
ValuelessNumber(tok) == tok.tag = TagNUM /\ tok.class # "Num"

\* C33: expr raises SyntaxError('Expected number') and no other exception,
\* and neither a direct scan nor the scans of the parser yield a token
\* tagged Tag.NUM that lacks a value.
C33_OnlySyntaxError ==
    /\ last_call = "expr" =>
           raised \in {NoError,
                       Lab02Error("SyntaxError", "Expected number", 0, 0)}
    /\ last_call = "scan" => ~ValuelessNumber(returned[1])
    /\ last_call \in {"Parser", "expr"} => ~ValuelessNumber(lookahead)

====
